---- MODULE Spec2Model ----
(***************************************************************************)
(* Model of the invoice metadata extractor (invoice-extract.js): the slug  *)
(* normaliser slugifyVendor, the date resolver findDate, the vendor        *)
(* resolver findVendor and the top-level script that combines them.        *)
(*                                                                         *)
(* A JavaScript string is modelled as a sequence of characters.  An ASCII  *)
(* character is the one-character TLA+ string; a non-ASCII character is    *)
(* named by its code point ("U+00F1" is n-tilde).                          *)
(***************************************************************************)
EXTENDS Integers, Sequences, FiniteSets, TLC

VARIABLES
  pc,          \* position of the running script or of the function applied
  name, slug, reslug,            \* slugifyVendor: input, result, result of the result
  args, fs, tool,                \* process.argv.slice(2), files that exist, what pdftotext does
  pdfPath, text, vendor, date, vendorSlug,   \* the constants of the script
  stdout, stderr, exitCode,      \* what the process wrote and its exit status
  spawned,                       \* whether spawnSync("pdftotext", ...) was called
  candidateList,                 \* the candidates array of findVendor
  runs, prevText, prevOut,       \* invocations so far, text and output of the last completed one
  shpc, sh     \* holded-from-gmail.sh: its position, its variables and streams

vars == <<pc, name, slug, reslug, args, fs, tool, pdfPath, text, vendor, date,
          vendorSlug, stdout, stderr, exitCode, spawned, candidateList, runs,
          prevText, prevOut, shpc, sh>>

----------------------------------------------------------------------------
(* Strings and characters *)

Str(s) == [i \in 1..Len(s) |-> SubSeq(s, i, i)]

RECURSIVE Concat(_)
Concat(ss) == IF ss = <<>> THEN <<>> ELSE Head(ss) \o Concat(Tail(ss))

SeqsUpTo(S, n) == UNION {[1..k -> S] : k \in 0..n}

UpperAZ == Str("ABCDEFGHIJKLMNOPQRSTUVWXYZ")
LowerAZ == Str("abcdefghijklmnopqrstuvwxyz")
Digits == {"0", "1", "2", "3", "4", "5", "6", "7", "8", "9"}
Range(f) == {f[i] : i \in DOMAIN f}
AsciiLower == Range(LowerAZ)
AsciiUpper == Range(UpperAZ)

\* Accented letters of the fold table, lower case, and their upper-case forms
\* (same index): a-acute a-grave a-diaeresis a-circumflex, then e, i, o, u,
\* then n-tilde.
LowerAccented ==
  << "U+00E1", "U+00E0", "U+00E4", "U+00E2",
     "U+00E9", "U+00E8", "U+00EB", "U+00EA",
     "U+00ED", "U+00EC", "U+00EF", "U+00EE",
     "U+00F3", "U+00F2", "U+00F6", "U+00F4",
     "U+00FA", "U+00F9", "U+00FC", "U+00FB",
     "U+00F1" >>
UpperAccented ==
  << "U+00C1", "U+00C0", "U+00C4", "U+00C2",
     "U+00C9", "U+00C8", "U+00CB", "U+00CA",
     "U+00CD", "U+00CC", "U+00CF", "U+00CE",
     "U+00D3", "U+00D2", "U+00D6", "U+00D4",
     "U+00DA", "U+00D9", "U+00DC", "U+00DB",
     "U+00D1" >>
Bullet == "U+2022"
MiddleDot == "U+00B7"

IndexOf(seq, c) == CHOOSE i \in DOMAIN seq : seq[i] = c

\* Letters outside the table of slugifyVendor: C-cedilla, A-tilde (capital
\* and small), I with dot above, the combining dot above, the Kelvin sign
UpperOther == <<"U+00C7", "U+00C3">>
LowerOther == <<"U+00E7", "U+00E3">>
DottedCapitalI == "U+0130"
CombiningDot == "U+0307"
KelvinSign == "U+212A"

\* String.prototype.toLowerCase, a character whose lower case is one character
toLowerChar(c) ==
  IF c \in AsciiUpper THEN LowerAZ[IndexOf(UpperAZ, c)]
  ELSE IF c \in Range(UpperAccented) THEN LowerAccented[IndexOf(UpperAccented, c)]
  ELSE IF c \in Range(UpperOther) THEN LowerOther[IndexOf(UpperOther, c)]
  ELSE IF c = KelvinSign THEN "k"
  ELSE c

\* The lower case of I with dot above is two characters
toLowerChars(c) ==
  IF c = DottedCapitalI THEN <<"i", CombiningDot>> ELSE <<toLowerChar(c)>>

toLowerCase(s) == Concat([i \in 1..Len(s) |-> toLowerChars(s[i])])

\* White space removed by String.prototype.trim and matched by \s
WhiteSpace == {" ", "\t", "\n", "\r", "\f", "U+00A0"}

RECURSIVE trimStart(_)
trimStart(s) ==
  IF s # <<>> /\ Head(s) \in WhiteSpace THEN trimStart(Tail(s)) ELSE s

RECURSIVE trimEnd(_)
trimEnd(s) ==
  IF s # <<>> /\ s[Len(s)] \in WhiteSpace
  THEN trimEnd(SubSeq(s, 1, Len(s) - 1)) ELSE s

trim(s) == trimEnd(trimStart(s))

\* \w of a regular expression without the u flag
IsWordChar(c) == c \in AsciiLower \cup AsciiUpper \cup Digits \cup {"_"}

\* \b at position i: between s[i-1] and s[i] (i = 1 is the start of the
\* string, i = Len(s)+1 its end)
AtWordBoundary(s, i) ==
  LET before == i > 1 /\ IsWordChar(s[i - 1])
      after == i <= Len(s) /\ IsWordChar(s[i])
  IN before # after

----------------------------------------------------------------------------
(* A backtracking matcher for the \b(alt1|alt2|...)\b expressions.         *)
(* A pattern is a sequence of elements [cs |-> characters accepted,        *)
(* opt |-> whether the element is followed by ?].                          *)

El(cs) == [cs |-> cs, opt |-> FALSE]
Opt(cs) == [cs |-> cs, opt |-> TRUE]

\* A literal alternative written as in the source, without the backslashes:
\* "s.?a.?" is s\.?a\.?
Pat(src) ==
  LET cs == Str(src)
      idx == SelectSeq([i \in 1..Len(cs) |-> i], LAMBDA i : cs[i] # "?")
  IN [k \in 1..Len(idx) |->
        [cs |-> {cs[idx[k]]},
         opt |-> idx[k] < Len(cs) /\ cs[idx[k] + 1] = "?"]]

\* With the i flag a letter of the pattern accepts both of its cases
IgnoreCase(pat) ==
  [k \in 1..Len(pat) |->
     [cs |-> pat[k].cs \cup
             {UpperAZ[IndexOf(LowerAZ, c)] : c \in pat[k].cs \cap AsciiLower},
      opt |-> pat[k].opt]]

\* MatchFrom without the closing \b
RECURSIVE MatchFrom_NoBoundary(_, _, _, _)
MatchFrom_NoBoundary(pat, k, s, i) ==
  IF k > Len(pat) THEN <<i>>
  ELSE LET take == IF i <= Len(s) /\ s[i] \in pat[k].cs
                   THEN MatchFrom_NoBoundary(pat, k + 1, s, i + 1) ELSE <<>>
           skip == IF pat[k].opt THEN MatchFrom_NoBoundary(pat, k + 1, s, i) ELSE <<>>
       IN IF take # <<>> THEN <<i>> \o take
          ELSE IF skip # <<>> THEN <<i>> \o skip
          ELSE <<>>

\* Elements k.. of pat matched at position i and followed by \b: the
\* positions at which each element starts and the end position, for the
\* first way the backtracking finds (an optional element is first tried
\* present), or <<>> when there is none.
RECURSIVE MatchFrom(_, _, _, _)
MatchFrom(pat, k, s, i) ==
  IF k > Len(pat)
  THEN IF AtWordBoundary(s, i) THEN <<i>> ELSE <<>>
  ELSE LET take == IF i <= Len(s) /\ s[i] \in pat[k].cs
                   THEN MatchFrom(pat, k + 1, s, i + 1) ELSE <<>>
           skip == IF pat[k].opt THEN MatchFrom(pat, k + 1, s, i) ELSE <<>>
       IN IF take # <<>> THEN <<i>> \o take
          ELSE IF skip # <<>> THEN <<i>> \o skip
          ELSE <<>>

\* \b(alts[a]|alts[a+1]|...)\b at position i: the first alternative that
\* matches, as [alt, path], or [alt |-> 0] when none does.
RECURSIVE ExecAt(_, _, _, _)
ExecAt(alts, a, s, i) ==
  IF a > Len(alts) \/ ~AtWordBoundary(s, i) THEN [alt |-> 0, path |-> <<>>]
  ELSE LET p == MatchFrom(alts[a], 1, s, i)
       IN IF p # <<>> THEN [alt |-> a, path |-> p]
          ELSE ExecAt(alts, a + 1, s, i)

MatchEnd(m) == m.path[Len(m.path)]

\* RegExp.prototype.test for an expression without anchors
Test(alts, s) == \E i \in 1..Len(s) : ExecAt(alts, 1, s, i).alt # 0

\* String.prototype.replace(/\b(...)\b/g, ""): the matches are found left
\* to right in the original string and never overlap
RECURSIVE RemoveAll(_, _, _)
RemoveAll(alts, s, i) ==
  IF i > Len(s) THEN <<>>
  ELSE LET m == ExecAt(alts, 1, s, i)
       IN IF m.alt # 0 THEN RemoveAll(alts, s, MatchEnd(m))
          ELSE <<s[i]>> \o RemoveAll(alts, s, i + 1)

----------------------------------------------------------------------------
(* slugifyVendor *)

\* A JavaScript value handed to slugifyVendor: a string, null or undefined
JsString(s) == [kind |-> "string", val |-> s]
JsNull == [kind |-> "null", val |-> <<>>]
JsUndefined == [kind |-> "undefined", val |-> <<>>]

\* String(name || "")
StringOrEmpty(v) == IF v.kind = "string" THEN v.val ELSE <<>>

\* The six chained replaces of the accented letters
foldDiacritics(s) ==
  [i \in 1..Len(s) |->
     IF s[i] \in Range(LowerAccented)
     THEN <<"a", "e", "i", "o", "u", "n">>[(IndexOf(LowerAccented, s[i]) + 3) \div 4]
     ELSE s[i]]

\* The list with the closing period of "s.l." required
LegalSuffixSources_MandatoryPeriod ==
  <<"s.?a.?", "sl", "s.l.", "srl", "ltd", "inc", "llc", "gmbh", "bv", "oy",
    "ab">>

\* The list without "gmbh"
LegalSuffixSources_NoGmbh ==
  <<"s.?a.?", "sl", "s.l.?", "srl", "ltd", "inc", "llc", "bv", "oy", "ab">>

LegalSuffixSources ==
  <<"s.?a.?", "sl", "s.l.?", "srl", "ltd", "inc", "llc", "gmbh", "bv", "oy",
    "ab">>
LegalSuffixes == [k \in DOMAIN LegalSuffixSources |-> Pat(LegalSuffixSources[k])]

stripLegalSuffixes(s) == RemoveAll(LegalSuffixes, s, 1)

SlugChars == AsciiLower \cup Digits

\* replace(/[^a-z0-9]+/g, "-")
RECURSIVE hyphenateRuns(_, _)
hyphenateRuns(s, i) ==
  IF i > Len(s) THEN <<>>
  ELSE IF s[i] \in SlugChars THEN <<s[i]>> \o hyphenateRuns(s, i + 1)
  ELSE IF i > 1 /\ s[i - 1] \notin SlugChars THEN hyphenateRuns(s, i + 1)
  ELSE <<"-">> \o hyphenateRuns(s, i + 1)

RECURSIVE stripLeadingHyphens(_)
stripLeadingHyphens(s) ==
  IF s # <<>> /\ Head(s) = "-" THEN stripLeadingHyphens(Tail(s)) ELSE s

RECURSIVE stripTrailingHyphens(_)
stripTrailingHyphens(s) ==
  IF s # <<>> /\ s[Len(s)] = "-"
  THEN stripTrailingHyphens(SubSeq(s, 1, Len(s) - 1)) ELSE s

\* Only the leading hyphens stripped
stripEdgeHyphens_LeadingOnly(s) == stripLeadingHyphens(s)

\* replace(/^-+|-+$/g, "")
stripEdgeHyphens(s) == stripTrailingHyphens(stripLeadingHyphens(s))

\* replace(/-+/g, "-")
RECURSIVE collapseHyphens(_, _)
collapseHyphens(s, i) ==
  IF i > Len(s) THEN <<>>
  ELSE IF s[i] = "-" /\ i > 1 /\ s[i - 1] = "-" THEN collapseHyphens(s, i + 1)
  ELSE <<s[i]>> \o collapseHyphens(s, i + 1)

Fallback == Str("empresa")

\* The fallback taken only when nothing at all is left of the name
slugifyVendor_EmptyOnly(v) ==
  LET s0 == toLowerCase(trim(StringOrEmpty(v)))
      s1 == foldDiacritics(s0)
      s2 == stripLegalSuffixes(s1)
      s3 == collapseHyphens(stripEdgeHyphens(hyphenateRuns(s2, 1)), 1)
  IN IF s2 = <<>> THEN Fallback ELSE s3

slugifyVendor(v) ==
  LET s0 == toLowerCase(trim(StringOrEmpty(v)))
      s1 == foldDiacritics(s0)
      s2 == stripLegalSuffixes(s1)
      s3 == collapseHyphens(stripEdgeHyphens(hyphenateRuns(s2, 1)), 1)
  IN IF s3 = <<>> THEN Fallback ELSE s3

----------------------------------------------------------------------------
(* findDate *)

\* The null that findDate returns when there is no candidate
NoDate == [null |-> TRUE, year |-> <<>>, month |-> <<>>]

DateSep == El({"-", "/"})
Digit19 == Digits \ {"0"}

\* (20\d{2})
YearEls == <<El({"2"}), El({"0"}), El(Digits), El(Digits)>>
\* (0?[1-9]|1[0-2])
MonthAlts == << <<Opt({"0"}), El(Digit19)>>, <<El({"1"}), El({"0", "1", "2"})>> >>
\* (0?[1-9]|[12]\d|3[01])
DayAlts == << <<Opt({"0"}), El(Digit19)>>,
              <<El({"1", "2"}), El(Digits)>>,
              <<El({"3"}), El({"0", "1"})>> >>

\* The alternatives of two groups in the order the backtracking tries them:
\* every alternative of the second group under each one of the first
AltPairs(first, second) ==
  [k \in 1..(Len(first) * Len(second)) |->
     <<first[((k - 1) \div Len(second)) + 1], second[((k - 1) % Len(second)) + 1]>>]

\* /\b(20\d{2})[-\/](0?[1-9]|1[0-2])[-\/](0?[1-9]|[12]\d|3[01])\b/g
\* Each alternative carries the elements at which groups 1..3 start and end.
IsoPatterns ==
  LET prs == AltPairs(MonthAlts, DayAlts)
  IN [k \in DOMAIN prs |->
        [els |-> YearEls \o <<DateSep>> \o prs[k][1] \o <<DateSep>> \o prs[k][2],
         yearFrom |-> 1, yearTo |-> 5,
         monthFrom |-> 6, monthTo |-> 6 + Len(prs[k][1])]]

\* /\b(0?[1-9]|[12]\d|3[01])[-\/](0?[1-9]|1[0-2])[-\/](20\d{2})\b/g
DayFirstPatterns ==
  LET prs == AltPairs(DayAlts, MonthAlts)
  IN [k \in DOMAIN prs |->
        [els |-> prs[k][1] \o <<DateSep>> \o prs[k][2] \o <<DateSep>> \o YearEls,
         monthFrom |-> Len(prs[k][1]) + 2,
         monthTo |-> Len(prs[k][1]) + 2 + Len(prs[k][2]),
         yearFrom |-> Len(prs[k][1]) + Len(prs[k][2]) + 3,
         yearTo |-> Len(prs[k][1]) + Len(prs[k][2]) + 7]]

\* text.matchAll(re): the matches from position i on, left to right, each
\* as the candidate {year, month} the loop body pushes
RECURSIVE matchAllDates(_, _, _)
matchAllDates(pats, s, i) ==
  IF i > Len(s) THEN <<>>
  ELSE LET m == ExecAt([k \in DOMAIN pats |-> pats[k].els], 1, s, i)
       IN IF m.alt = 0 THEN matchAllDates(pats, s, i + 1)
          ELSE LET p == pats[m.alt]
                   c == [year |-> SubSeq(s, m.path[p.yearFrom], m.path[p.yearTo] - 1),
                         month |-> SubSeq(s, m.path[p.monthFrom], m.path[p.monthTo] - 1)]
               IN <<c>> \o matchAllDates(pats, s, MatchEnd(m))

\* The month left as written
padStart2_AsWritten(s) == s

\* String.prototype.padStart(2, "0")
padStart2(s) == IF Len(s) >= 2 THEN s ELSE IF Len(s) = 1 THEN <<"0">> \o s ELSE <<"0", "0">>

\* The day-first matches ahead of the ISO-like ones
dateCandidates_DayFirst(t) ==
  matchAllDates(DayFirstPatterns, t, 1) \o matchAllDates(IsoPatterns, t, 1)

\* The day-first matches forgotten
dateCandidates_IsoOnly(t) == matchAllDates(IsoPatterns, t, 1)

dateCandidates(t) ==
  matchAllDates(IsoPatterns, t, 1) \o matchAllDates(DayFirstPatterns, t, 1)

\* The last candidate taken instead of the first
findDate_LastCandidate(t) ==
  LET candidates == dateCandidates(t)
  IN IF Len(candidates) = 0 THEN NoDate
     ELSE [null |-> FALSE,
           year |-> candidates[Len(candidates)].year,
           month |-> padStart2(candidates[Len(candidates)].month)]

findDate(t) ==
  LET candidates == dateCandidates(t)
  IN IF Len(candidates) = 0 THEN NoDate
     ELSE [null |-> FALSE,
           year |-> candidates[1].year,
           month |-> padStart2(candidates[1].month)]

----------------------------------------------------------------------------
(* findVendor *)

MaxLines == 80

\* text.split(/\r?\n/): a piece ends before a line feed, or before the
\* carriage return that comes just before it, and the next one starts after
\* the line feed
splitLines(s) ==
  LET feeds == SelectSeq([i \in 1..Len(s) |-> i], LAMBDA i : s[i] = "\n")
      first(k) == IF k = 1 THEN 1 ELSE feeds[k - 1] + 1
      last(k) ==
        IF k > Len(feeds) THEN Len(s)
        ELSE IF feeds[k] > first(k) /\ s[feeds[k] - 1] = "\r" THEN feeds[k] - 2
        ELSE feeds[k] - 1
  IN [k \in 1..(Len(feeds) + 1) |-> SubSeq(s, first(k), last(k))]

\* Every non-empty line kept, however many there are
rawLines_NoLimit(t) ==
  LET pieces == splitLines(t)
      trimmed == [k \in DOMAIN pieces |-> trim(pieces[k])]
  IN SelectSeq(trimmed, LAMBDA l : l # <<>>)

\* .map(trim).filter(Boolean).slice(0, 80)
rawLines(t) ==
  LET pieces == splitLines(t)
      trimmed == [k \in DOMAIN pieces |-> trim(pieces[k])]
      kept == SelectSeq(trimmed, LAMBDA l : l # <<>>)
  IN SubSeq(kept, 1, IF Len(kept) < MaxLines THEN Len(kept) ELSE MaxLines)

stop ==
  {Str("factura"), Str("invoice"), Str("receipt"), Str("bill"),
   Str("sold to"), Str("invoice summary"), Str("billing overview"),
   Str("overview"), Str("total"), Str("subtotal"), Str("iva"), Str("vat"),
   Str("impuestos"), Str("fecha"), Str("date")}

\* s.split(c)[0]
RECURSIVE beforeFirst(_, _)
beforeFirst(s, c) ==
  IF s = <<>> \/ Head(s) = c THEN <<>> ELSE <<Head(s)>> \o beforeFirst(Tail(s), c)

\* The bullet not taken as a separator
normalizeCandidate_PipeOnly(line) ==
  LET firstChunk == trim(beforeFirst(line, "|"))
  IN trim(SelectSeq(firstChunk, LAMBDA c : c \notin {"#", "*", MiddleDot}))

normalizeCandidate(line) ==
  LET firstChunk == trim(beforeFirst(beforeFirst(line, Bullet), "|"))
  IN trim(SelectSeq(firstChunk, LAMBDA c : c \notin {"#", "*", MiddleDot}))

Alts(srcs) == [k \in DOMAIN srcs |-> IgnoreCase(Pat(srcs[k]))]

\* /\b(gmbh|limited|ltd\.?|inc\.?|llc|s\.?l\.?u\.?|s\.?l\.?|s\.a\.?|bv)\b/i
ScoreSuffixes ==
  Alts(<<"gmbh", "limited", "ltd.?", "inc.?", "llc", "s.?l.?u.?", "s.?l.?",
         "s.a.?", "bv">>)
\* /\b(online|technologies|systems|software|services)\b/i
BusinessTerms ==
  Alts(<<"online", "technologies", "systems", "software", "services">>)
\* /\b(cif|nif|vat|tax)\b/i
TaxIdWords == Alts(<<"cif", "nif", "vat", "tax">>)
\* /\b(factura|invoice|recibo|receipt)\b/i
DocTypeWords == Alts(<<"factura", "invoice", "recibo", "receipt">>)

\* The score without the term for the length
score_NoLength(line) ==
  (IF Test(ScoreSuffixes, line) THEN 3 ELSE 0)
    + (IF Test(BusinessTerms, line) THEN 1 ELSE 0)

score(line) ==
  (IF Test(ScoreSuffixes, line) THEN 3 ELSE 0)
    + (IF Test(BusinessTerms, line) THEN 1 ELSE 0)
    + (IF Len(line) >= 4 /\ Len(line) <= 50 THEN 1 ELSE 0)

\* The position after the longest run of characters of cs that starts at i
RECURSIVE skipRun(_, _, _)
skipRun(s, i, cs) ==
  IF i <= Len(s) /\ s[i] \in cs THEN skipRun(s, i + 1, cs) ELSE i

litAt(s, i, lit) ==
  i + Len(lit) - 1 <= Len(s) /\ toLowerCase(SubSeq(s, i, i + Len(lit) - 1)) = lit

\* /^page\s+\d+\s+of\s+\d+$/i
isPageLine(s) ==
  LET a == 5
      b == skipRun(s, a, WhiteSpace)
      c == skipRun(s, b, Digits)
      d == skipRun(s, c, WhiteSpace)
      e == d + 2
      f == skipRun(s, e, WhiteSpace)
      g == skipRun(s, f, Digits)
  IN /\ litAt(s, 1, Str("page")) /\ b > a /\ c > b /\ d > c
     /\ litAt(s, d, Str("of")) /\ f > e /\ g > f /\ g = Len(s) + 1

\* /^\d+$/
isDigitsOnly(s) == s # <<>> /\ \A i \in 1..Len(s) : s[i] \in Digits

contains(s, lit) == \E i \in 1..Len(s) : litAt(s, i, lit)

\* /(www\.|https?:\/\/|@)/i
hasUrlOrEmail(s) ==
  \/ contains(s, Str("www."))
  \/ contains(s, Str("http://"))
  \/ contains(s, Str("https://"))
  \/ contains(s, Str("@"))

\* /[a-z(a,e,i,o,u acute)(n tilde)]/i
VendorLetters ==
  AsciiLower \cup AsciiUpper
    \cup {"U+00E1", "U+00E9", "U+00ED", "U+00F3", "U+00FA", "U+00F1"}
    \cup {"U+00C1", "U+00C9", "U+00CD", "U+00D3", "U+00DA", "U+00D1"}
hasLetter(s) == \E i \in 1..Len(s) : s[i] \in VendorLetters

\* The loop body without the URL and e-mail rule
survives_NoUrlRule(cleaned) ==
  /\ ~(Len(cleaned) < 3)
  /\ toLowerCase(cleaned) \notin stop
  /\ ~isPageLine(cleaned)
  /\ ~isDigitsOnly(cleaned)
  /\ ~Test(TaxIdWords, cleaned)
  /\ ~Test(DocTypeWords, cleaned)
  /\ hasLetter(cleaned)

\* A line that starts with a word of the stop set rejected as well
survives_StopPrefix(cleaned) ==
  /\ ~(Len(cleaned) < 3)
  /\ ~\E w \in stop : litAt(cleaned, 1, w)
  /\ ~isPageLine(cleaned)
  /\ ~isDigitsOnly(cleaned)
  /\ ~hasUrlOrEmail(cleaned)
  /\ ~Test(TaxIdWords, cleaned)
  /\ ~Test(DocTypeWords, cleaned)
  /\ hasLetter(cleaned)

\* The body of the loop over rawLines: whether the cleaned line is pushed
survives(cleaned) ==
  /\ ~(Len(cleaned) < 3)
  /\ toLowerCase(cleaned) \notin stop
  /\ ~isPageLine(cleaned)
  /\ ~isDigitsOnly(cleaned)
  /\ ~hasUrlOrEmail(cleaned)
  /\ ~Test(TaxIdWords, cleaned)
  /\ ~Test(DocTypeWords, cleaned)
  /\ hasLetter(cleaned)

\* The rules applied to the whole line, the cleaned chunk being the value
vendorCandidates_WholeLine(t) ==
  LET lines == rawLines(t)
      pushed == SelectSeq(lines, survives)
  IN [k \in DOMAIN pushed |->
        [value |-> normalizeCandidate(pushed[k]),
         score |-> score(normalizeCandidate(pushed[k]))]]

vendorCandidates(t) ==
  LET lines == rawLines(t)
      cleaned == [k \in DOMAIN lines |-> normalizeCandidate(lines[k])]
      pushed == SelectSeq(cleaned, survives)
  IN [k \in DOMAIN pushed |-> [value |-> pushed[k], score |-> score(pushed[k])]]

\* An unstable sort: an element goes ahead of the elements of its own score
RECURSIVE insertByScore_Unstable(_, _)
insertByScore_Unstable(sorted, c) ==
  IF sorted = <<>> THEN <<c>>
  ELSE IF Head(sorted).score - c.score <= 0 THEN <<c>> \o sorted
  ELSE <<Head(sorted)>> \o insertByScore_Unstable(Tail(sorted), c)

\* candidates.sort((a, b) => b.score - a.score): Array.prototype.sort is
\* stable, an element goes after the elements that do not score lower
RECURSIVE insertByScore(_, _)
insertByScore(sorted, c) ==
  IF sorted = <<>> THEN <<c>>
  ELSE IF Head(sorted).score - c.score < 0 THEN <<c>> \o sorted
  ELSE <<Head(sorted)>> \o insertByScore(Tail(sorted), c)

RECURSIVE sortByScore(_)
sortByScore(cands) ==
  IF cands = <<>> THEN <<>>
  ELSE insertByScore(sortByScore(SubSeq(cands, 1, Len(cands) - 1)), cands[Len(cands)])

findVendor(t) ==
  LET candidates == vendorCandidates(t)
  IN IF Len(candidates) = 0 THEN <<>>
     ELSE sortByScore(candidates)[1].value

----------------------------------------------------------------------------
(* The script: arguments, text extraction, the three resolvers, output *)

Cwd == Str("/work")

\* path.resolve for a path without "." and ".." segments
resolve(p) == IF p # <<>> /\ Head(p) = "/" THEN p ELSE Cwd \o <<"/">> \o p

RECURSIVE lastIndexOf(_, _)
lastIndexOf(s, c) ==
  IF s = <<>> THEN 0
  ELSE IF s[Len(s)] = c THEN Len(s)
  ELSE lastIndexOf(SubSeq(s, 1, Len(s) - 1), c)

lastSegment(p) == SubSeq(p, lastIndexOf(p, "/") + 1, Len(p))

\* path.extname: from the last period of the last segment, unless that
\* period is its first character
extname(p) ==
  LET b == lastSegment(p)
      d == lastIndexOf(b, ".")
  IN IF d <= 1 THEN <<>> ELSE SubSeq(b, d, Len(b))

\* path.basename(p, ext)
basename(p, ext) ==
  LET b == lastSegment(p)
  IN IF /\ ext # <<>> /\ Len(ext) < Len(b)
        /\ SubSeq(b, Len(b) - Len(ext) + 1, Len(b)) = ext
     THEN SubSeq(b, 1, Len(b) - Len(ext))
     ELSE b

PdfFlag == Str("--pdf")

\* args.indexOf("--pdf"), 0 for not found
pdfIdx(a) ==
  IF \E i \in DOMAIN a : a[i] = PdfFlag
  THEN CHOOSE i \in DOMAIN a : a[i] = PdfFlag /\ \A j \in 1..(i - 1) : a[j] # PdfFlag
  ELSE 0

NoOutput == [written |-> FALSE, vendor |-> <<>>, vendorSlug |-> <<>>,
             year |-> <<>>, month |-> <<>>]

UsageMessage == Str("Usage: invoice-extract.js --pdf /path/to/invoice.pdf")

\* usage(): console.error and process.exit(2)
Usage ==
  /\ stderr' = Append(stderr, UsageMessage)
  /\ exitCode' = 2
  /\ pc' = "exit"

\* die(msg): console.error and process.exit(1)
Die(msg) ==
  /\ stderr' = Append(stderr, msg)
  /\ exitCode' = 1
  /\ pc' = "exit"

\* const args ... if (!pdfPath) usage(); const resolved = path.resolve(pdfPath)
ParseArgs ==
  /\ pc = "args"
  /\ LET i == pdfIdx(args)
     IN IF i = 0 \/ i + 1 > Len(args) \/ args[i + 1] = <<>>
        THEN Usage /\ UNCHANGED pdfPath
        ELSE /\ pdfPath' = resolve(args[i + 1])
             /\ pc' = "exists"
             /\ UNCHANGED <<stderr, exitCode>>
  /\ UNCHANGED <<spawned, candidateList,
                 name, slug, reslug, args, fs, tool, text, vendor, date,
                 vendorSlug, stdout, runs, prevText, prevOut, shpc, sh>>

\* The path taken on trust
CheckExists_NoCheck ==
  /\ pc = "exists"
  /\ pc' = "extract"
  /\ UNCHANGED <<stderr, exitCode, spawned, candidateList,
                 name, slug, reslug, args, fs, tool, pdfPath, text, vendor,
                 date, vendorSlug, stdout, runs, prevText, prevOut, shpc, sh>>

\* if (!fs.existsSync(resolved)) die("PDF not found: " + resolved)
CheckExists ==
  /\ pc = "exists"
  /\ IF pdfPath \notin fs
     THEN Die(Str("PDF not found: ") \o pdfPath)
     ELSE pc' = "extract" /\ UNCHANGED <<stderr, exitCode>>
  /\ UNCHANGED <<spawned, candidateList,
                 name, slug, reslug, args, fs, tool, pdfPath, text, vendor,
                 date, vendorSlug, stdout, runs, prevText, prevOut, shpc, sh>>

\* The status of the tool ignored: whatever it wrote is taken as the text
ExtractText_IgnoreStatus ==
  /\ pc = "extract"
  /\ spawned' = TRUE
  /\ text' = tool.stdout
  /\ pc' = "vendor"
  /\ UNCHANGED <<stderr, exitCode, candidateList,
                 name, slug, reslug, args, fs, tool, pdfPath, vendor, date,
                 vendorSlug, stdout, runs, prevText, prevOut, shpc, sh>>

\* const text = extractText(resolved): tool is the result of spawnSync
ExtractText ==
  /\ pc = "extract"
  /\ spawned' = TRUE
  /\ IF tool.status # 0
     THEN /\ Die(IF tool.stderr # <<>> THEN tool.stderr ELSE Str("pdftotext failed"))
          /\ UNCHANGED text
     ELSE /\ text' = tool.stdout
          /\ pc' = "vendor"
          /\ UNCHANGED <<stderr, exitCode>>
  /\ UNCHANGED <<candidateList,
                 name, slug, reslug, args, fs, tool, pdfPath, vendor, date,
                 vendorSlug, stdout, runs, prevText, prevOut, shpc, sh>>

\* const vendor = findVendor(text)
FindVendor ==
  /\ pc = "vendor"
  /\ vendor' = findVendor(text)
  /\ pc' = "date"
  /\ UNCHANGED <<spawned, candidateList,
                 name, slug, reslug, args, fs, tool, pdfPath, text, date,
                 vendorSlug, stdout, stderr, exitCode, runs, prevText, prevOut, shpc, sh>>

\* const date = findDate(text)
FindDate ==
  /\ pc = "date"
  /\ date' = findDate(text)
  /\ pc' = "slug"
  /\ UNCHANGED <<spawned, candidateList,
                 name, slug, reslug, args, fs, tool, pdfPath, text, vendor,
                 vendorSlug, stdout, stderr, exitCode, runs, prevText, prevOut, shpc, sh>>

\* The vendor alone, no file name
slugSource_VendorOnly(v, resolved) == v

\* The file name alone, whatever the vendor
slugSource_FileOnly(v, resolved) == basename(resolved, extname(resolved))

\* vendor || path.basename(resolved, path.extname(resolved))
slugSource(v, resolved) ==
  IF v # <<>> THEN v ELSE basename(resolved, extname(resolved))

\* const vendorSlug = slugifyVendor(...)
SlugVendor ==
  /\ pc = "slug"
  /\ vendorSlug' = slugifyVendor(JsString(slugSource(vendor, pdfPath)))
  /\ pc' = "write"
  /\ UNCHANGED <<spawned, candidateList,
                 name, slug, reslug, args, fs, tool, pdfPath, text, vendor,
                 date, stdout, stderr, exitCode, runs, prevText, prevOut, shpc, sh>>

\* An unresolved vendor or date treated as a failure
WriteResult_FailUnresolved ==
  /\ pc = "write"
  /\ IF vendor = <<>> \/ date.null
     THEN Die(Str("nothing found")) /\ UNCHANGED stdout
     ELSE /\ stdout' = [written |-> TRUE, vendor |-> vendor,
                        vendorSlug |-> vendorSlug,
                        year |-> date.year, month |-> date.month]
          /\ exitCode' = 0
          /\ pc' = "exit"
          /\ UNCHANGED stderr
  /\ UNCHANGED <<spawned, candidateList, name, slug, reslug, args, fs, tool,
                 pdfPath, text, vendor, date, vendorSlug, runs, prevText,
                 prevOut, shpc, sh>>

\* const out = {...}; process.stdout.write(JSON.stringify(out)); the script
\* ends and the process exits with status 0
WriteResult ==
  /\ pc = "write"
  /\ stdout' = [written |-> TRUE, vendor |-> vendor, vendorSlug |-> vendorSlug,
                year |-> IF date.null THEN <<>> ELSE date.year,
                month |-> IF date.null THEN <<>> ELSE date.month]
  /\ exitCode' = 0
  /\ pc' = "exit"
  /\ UNCHANGED <<spawned, candidateList,
                 name, slug, reslug, args, fs, tool, pdfPath, text, vendor,
                 date, vendorSlug, stderr, runs, prevText, prevOut, shpc, sh>>

----------------------------------------------------------------------------
(* Values of the variables that a specification does not use *)

NoTool == [status |-> 0, stdout |-> <<>>, stderr |-> <<>>]
NotExited == -1

IdleSlug == name = JsString(<<>>) /\ slug = <<>> /\ reslug = <<>>

\* The variables of holded-from-gmail.sh before it has read its arguments
\* (lines 20-26), its output streams, its exit status and its effects
NoShell ==
  [argv |-> <<>>, config |-> <<>>, ACCOUNT |-> <<>>, MESSAGE_ID |-> <<>>,
   TYPE |-> <<>>, YES |-> Str("false"), WEBHOOK |-> <<>>,
   EMAIL_EMPRESA |-> <<>>, EMAIL_AUTONOMO |-> <<>>, DEST_EMAIL |-> <<>>,
   MSG_JSON |-> <<>>, ATTACHMENT_ID |-> <<>>, THREAD_ID |-> <<>>,
   META |-> <<>>,
   VENDOR_SLUG |-> <<>>, YEAR |-> <<>>, MONTH |-> <<>>, FILENAME |-> <<>>,
   out |-> <<>>, err |-> <<>>, status |-> NotExited,
   uploads |-> <<>>, archived |-> <<>>]

IdleShell == shpc = "none" /\ sh = NoShell

IdleExtractor ==
  /\ args = <<>> /\ fs = {} /\ tool = NoTool /\ pdfPath = <<>>
  /\ vendorSlug = <<>> /\ stdout = NoOutput /\ stderr = <<>>
  /\ exitCode = NotExited /\ spawned = FALSE
  /\ runs = 0 /\ prevText = <<>> /\ prevOut = NoOutput

IdleProcess == IdleShell /\ IdleExtractor

IdleMain ==
  IdleProcess /\ text = <<>> /\ vendor = <<>> /\ date = NoDate /\ candidateList = <<>>

slugVars == <<name, slug, reslug>>
processVars == <<args, fs, tool, pdfPath, vendorSlug, stdout, stderr, exitCode,
                 spawned, runs, prevText, prevOut, shpc, sh>>
shellVars == <<shpc, sh>>
mainVars == <<processVars, text, vendor, date, candidateList>>

----------------------------------------------------------------------------
(* SpecSlug: slugifyVendor applied to a drawn input, then to its own       *)
(* result.                                                                 *)

MaxSlugTokens == 4

SlugTokens ==
  {<<"a">>, <<"s">>, <<"l">>, <<"_">>, <<".">>, <<" ">>, <<"-">>, <<"1">>}

\* Names, separators and legal-form spellings of the structured inputs
SlugBases == {Str("Acme"), Str("slack"), Str("incase"), Str("abbott"),
              Str("Acme Technologies")}
SlugSeparators == {Str(" "), Str(", ")}
MatchedSpellings ==
  {Str("sa"), Str("s.a"), Str("s.a."), Str("sa."), Str("sl"), Str("s.l"),
   Str("s.l."), Str("sl."), Str("srl"), Str("srl."), Str("ltd"),
   Str("ltd."), Str("inc"), Str("inc."), Str("llc"), Str("llc."),
   Str("gmbh"), Str("gmbh."), Str("bv"), Str("bv."), Str("oy"), Str("oy."),
   Str("ab"), Str("ab."),
   Str("S.A."), Str("SL"), Str("S.L."), Str("SRL"), Str("Ltd"), Str("Inc."),
   Str("LLC"), Str("GmbH"), Str("BV"), Str("Oy"), Str("AB")}
DottedSpellings ==
  {Str("s.r.l."), Str("s.r.l"), Str("l.t.d."), Str("l.l.c."), Str("b.v."),
   Str("o.y."), Str("a.b."), Str("S.R.L.")}
ClaimedSpellings == MatchedSpellings \cup DottedSpellings

MaxAccentTokens == 3

\* n-tilde, N-tilde, e-acute, U-diaeresis; then letters outside the table
AccentTokens ==
  {"U+00F1", "U+00D1", "U+00E9", "U+00DC",
   "U+00E7", "U+00C7", "U+00E3", DottedCapitalI, KelvinSign, "p", " "}

PenaNono ==
  <<"P", "e", "U+00F1", "a", " ", "U+00D1", "o", "U+00F1", "o">>

AccentInputs ==
  SeqsUpTo(AccentTokens, MaxAccentTokens)
    \cup {PenaNono, LowerAccented, UpperAccented}

\* Blank names, punctuation and names made only of legal-suffix tokens
FallbackNames ==
  {<<>>, Str("   "), <<" ", "\t", "\n">>, Str(" -._"), Str("?!"), Str("S.L."),
   Str("Inc"), Str("S.A. SL"), Str("GmbH, Ltd.")}

SlugInputs ==
  {JsNull, JsUndefined}
    \cup {JsString(n) : n \in AccentInputs}
    \cup {JsString(Concat(ts)) : ts \in SeqsUpTo(SlugTokens, MaxSlugTokens)}
    \cup {JsString(b) : b \in SlugBases}
    \cup {JsString(sp) : sp \in ClaimedSpellings}
    \cup {JsString(b \o sep \o sp) :
            b \in SlugBases, sep \in SlugSeparators, sp \in ClaimedSpellings}
    \cup {JsString(<<" ", "\t">> \o b \o <<" ", ".", "\n">>) : b \in SlugBases}
    \cup {JsString(n) : n \in FallbackNames \cup {Str("Empresa"), Str("Emp resa")}}

InitSlug ==
  /\ pc = "slug"
  /\ name \in SlugInputs
  /\ slug = <<>>
  /\ reslug = <<>>
  /\ IdleMain

Slugify ==
  /\ pc = "slug"
  /\ slug' = slugifyVendor(name)
  /\ pc' = "reslug"
  /\ UNCHANGED <<name, reslug, mainVars>>

Reslugify ==
  /\ pc = "reslug"
  /\ reslug' = slugifyVendor(JsString(slug))
  /\ pc' = "slugDone"
  /\ UNCHANGED <<name, slug, mainVars>>

NextSlug == Slugify \/ Reslugify

SpecSlug == InitSlug /\ [][NextSlug]_vars

Slugged == pc \in {"reslug", "slugDone"}

\* C1: slugifyVendor is idempotent: slugging a slug gives the same slug,
\* for every input, underscores, periods, hyphens and legal suffixes included.
C1_Idempotent == pc = "slugDone" => reslug = slug

\* C2: for every input (string, blank, punctuation, null, undefined) the
\* slug is a non-empty string of lowercase ASCII letters, digits and
\* hyphens with no leading, trailing or doubled hyphen.
C2_SlugShape ==
  Slugged =>
    /\ slug # <<>>
    /\ \A i \in 1..Len(slug) : slug[i] \in AsciiLower \cup Digits \cup {"-"}
    /\ slug[1] # "-"
    /\ slug[Len(slug)] # "-"
    /\ \A i \in 1..(Len(slug) - 1) : ~(slug[i] = "-" /\ slug[i + 1] = "-")

C2_Witness ==
  /\ Slugged
  /\ name = JsString(Str(" -._"))
  /\ slug = Fallback

\* C6: "Acme S.L.", "Acme SL" and "Acme, S.A." all slug to "acme".
C6_Examples ==
  (Slugged /\ name \in {JsString(Str("Acme S.L.")), JsString(Str("Acme SL")),
                        JsString(Str("Acme, S.A."))})
    => slug = Str("acme")

C6_Witness ==
  Slugged /\ name = JsString(Str("Acme, S.A.")) /\ slug = Str("acme")

LongerWords == {Str("slack"), Str("incase"), Str("abbott")}

NameWithSuffix(spellings) ==
  {<<b, b \o sep \o sp>> :
     b \in SlugBases, sep \in SlugSeparators, sp \in spellings}

\* The slug of a name followed by one of the spellings is the slug of the
\* name alone, and a longer word keeps the letters of a token inside it
SuffixesRemoved(spellings) ==
  Slugged =>
    /\ \A bn \in NameWithSuffix(spellings) :
         name = JsString(bn[2]) => slug = slugifyVendor(JsString(bn[1]))
    /\ \A w \in LongerWords : name = JsString(w) => slug = w

\* C7 as stated: every token of the legal-suffix set is removed as a whole
\* word in each spelling with or without internal and trailing periods
\* ("srl" and "s.r.l.", "ltd" and "ltd."), in any letter case, and is kept
\* inside a longer word.
C7_AnySpelling == SuffixesRemoved(ClaimedSpellings)

\* C7 amended: only "sa" and "sl" have spellings with an internal period
\* (s.a, s.l); every token is removed with or without a trailing period, in
\* any letter case, and is kept inside a longer word.
C7_MatchedSpellings == SuffixesRemoved(MatchedSpellings)

C7_Witness ==
  /\ Slugged
  /\ name = JsString(Str("Acme Technologies, GmbH"))
  /\ slug = Str("acme-technologies")

----------------------------------------------------------------------------
(* SpecDate: findDate applied to a drawn text.                             *)

MaxDateTokens == 3

DateTokens ==
  {Str("15/03/2024"), Str("2024-01-10"), Str("2024-1-7"), Str("2024/12/31"),
   Str("7/3/2024"), Str("2024-13-01"), Str("31-12-2099"), Str("2024-3-7"),
   Str(" "), Str("\n"), Str("x"), Str("1"), Str("-")}

DateTexts == {Concat(ts) : ts \in SeqsUpTo(DateTokens, MaxDateTokens)}

InitDate ==
  /\ pc = "scanDate"
  /\ text \in DateTexts
  /\ vendor = <<>>
  /\ date = NoDate
  /\ candidateList = <<>>
  /\ IdleSlug /\ IdleProcess

ScanDate ==
  /\ pc = "scanDate"
  /\ date' = findDate(text)
  /\ pc' = "dateDone"
  /\ UNCHANGED <<slugVars, processVars, text, vendor, candidateList>>

NextDate == ScanDate

SpecDate == InitDate /\ [][NextDate]_vars

\* The date strings of the two formats, written out
MonthStrings ==
  {<<d>> : d \in Digit19} \cup {<<"0", d>> : d \in Digit19}
    \cup {Str("10"), Str("11"), Str("12")}
DayStrings ==
  {<<d>> : d \in Digit19} \cup {<<"0", d>> : d \in Digit19}
    \cup {<<a, b>> : a \in {"1", "2"}, b \in Digits} \cup {Str("30"), Str("31")}
IsYear(y) == Len(y) = 4 /\ y[1] = "2" /\ y[2] = "0" /\ y[3] \in Digits /\ y[4] \in Digits

\* An ISO-like date YYYY[-/]M[M][-/]D[D] stands at position i of t, as a
\* whole word, with a month of mlen and a day of dlen characters
IsoDateAt(t, i, mlen, dlen) ==
  LET j == i + 4 + 1 + mlen + 1 + dlen
  IN /\ j - 1 <= Len(t)
     /\ IsYear(SubSeq(t, i, i + 3))
     /\ t[i + 4] \in {"-", "/"}
     /\ SubSeq(t, i + 5, i + 4 + mlen) \in MonthStrings
     /\ t[i + 5 + mlen] \in {"-", "/"}
     /\ SubSeq(t, i + 6 + mlen, j - 1) \in DayStrings
     /\ AtWordBoundary(t, i) /\ AtWordBoundary(t, j)

IsoStarts(t) ==
  {i \in 1..Len(t) : \E mlen \in {1, 2}, dlen \in {1, 2} : IsoDateAt(t, i, mlen, dlen)}

IsDateSepAt(t, i) == i <= Len(t) /\ t[i] \in {"-", "/"}

Min(S) == CHOOSE x \in S : \A y \in S : x <= y

\* C5: when the text has an ISO-like date, findDate returns the year and
\* month of the first one in document order, whatever day-first dates the
\* text has and wherever they are; a text with 15/03/2024 and 2024-01-10
\* gives 2024, 01.
C5_IsoFirst ==
  (pc = "dateDone" /\ IsoStarts(text) # {}) =>
    LET i == Min(IsoStarts(text))
        mlen == IF IsDateSepAt(text, i + 6) THEN 1 ELSE 2
    IN /\ ~date.null
       /\ date.year = SubSeq(text, i, i + 3)
       /\ date.month = padStart2(SubSeq(text, i + 5, i + 4 + mlen))

C5_Witness ==
  /\ pc = "dateDone"
  /\ text = Str("15/03/2024 2024-01-10")
  /\ date = [null |-> FALSE, year |-> Str("2024"), month |-> Str("01")]

----------------------------------------------------------------------------
(* SpecVendor: findVendor applied to a drawn text.                         *)

MaxVendorLines == 3

VendorLines ==
  {Str("Page 2 of 5"), Str("12345"), Str("billing@acme.com"),
   Str("http://acme.com"), Str("Acme Inc | billing@acme.com"),
   Str("Initech Systems ") \o <<Bullet>> \o Str(" http://initech.io"),
   Str("Acme GmbH"), Str("Globex Ltd"), Str("Total: 540.00"), Str("IBM"),
   Str("# PAGE 10  of 12"), <<>>}

RECURSIVE joinLines(_, _)
joinLines(ls, sep) ==
  IF ls = <<>> THEN <<>>
  ELSE IF Len(ls) = 1 THEN ls[1]
  ELSE ls[1] \o sep \o joinLines(Tail(ls), sep)

MaxMixedLines == 2

\* Line feed, carriage return and line feed, carriage return alone
Newlines == {<<"\n">>, <<"\r", "\n">>, <<"\r">>}

MixedLines == {Str("Acme GmbH"), Str("Total: 540.00"), Str("IBM"), <<>>}

\* Lines, each followed by a newline of any of the three conventions but
\* the last
RECURSIVE MixedTextsOf(_)
MixedTextsOf(n) ==
  IF n = 1 THEN MixedLines
  ELSE {l \o nl \o t : l \in MixedLines, nl \in Newlines, t \in MixedTextsOf(n - 1)}

MixedTexts == UNION {MixedTextsOf(n) : n \in 1..MaxMixedLines}

MaxFillerLines == 81

\* The characters of l written n times over
repeated(l, n) == [i \in 1..(n * Len(l)) |-> l[((i - 1) % Len(l)) + 1]]

\* Blank lines or none; a first line that is a candidate of score 1 or none;
\* a rejected line many times; blank lines or none; then a line of score 4
LongTexts ==
  {b1 \o f \o repeated(Str("12\n"), n) \o b2 \o Str("Acme GmbH") :
     b1 \in {<<>>, Str("\n \t\n")}, f \in {<<>>, Str("abcd\n")},
     b2 \in {<<>>, Str("\n \t\n")}, n \in (MaxLines - 2)..MaxFillerLines}

\* Lines on either side of each rule of the loop
RuleLines ==
  {Str("ab"), Str("abc"), Str("Date"), Str("date"), Str("Date: 2024-03-07"),
   Str("TOTAL"), Str("Sold To"), Str("Sold  To"), Str("Totals"),
   Str("page 3 of 4"), Str("PAGE  3 OF\t4"), Str("Page 3 of 4 x"),
   Str("page3 of 4"), Str("page 3 of"), Str("007"), Str("12-34"),
   Str("$ 5,00"), Str("www.acme.com"), Str("WWW.ACME.COM"), Str("wwwacme"),
   Str("acme https://x"), Str("acme HTTP://x"), Str("http:/acme"),
   Str("a@b"), Str("NIF B12345"), Str("nifty co"), Str("Tax: 21"),
   Str("tax_id 5"), Str("taxi 5"), Str("acme CIF"), Str("a VAT b"),
   Str("Factura 12"), Str("facturas sl"), Str("Invoices"), Str("Receipt-5"),
   Str("recibo no"), Str("un recibo"), Str("xinvoice"),
   <<"U+00F1", "U+00F1", "U+00F1">>, <<"U+00C1", "1", "2">>,
   <<"U+00FC", "U+00FC", "U+00FC">>, <<"U+00E0", "1", "2">>,
   Str("ab ") \o <<Bullet>> \o Str(" Acme GmbH"), Str("Acme | NIF 1"),
   Str("NIF 1 | Acme"), Str("# * IBM"), Str("*ab*"),
   Str("a") \o <<MiddleDot>> \o Str("b") \o <<MiddleDot>> \o Str("c"),
   Str("Acme Inc ") \o <<Bullet>> \o Str(" Tax ID 123"),
   Str("Acme | Inc ") \o <<Bullet>> \o Str(" x"),
   Str("Acme ") \o <<Bullet>> \o Str(" Inc | x"),
   Str(" # *Acme* ") \o <<MiddleDot>> \o Str(" GmbH \t| NIF 1"),
   Str("a # b"), Str("|Acme GmbH"), <<Bullet>> \o Str("Acme GmbH"),
   Str("Acme Inc | a@b www.x.io NIF 1 Invoice 2"),
   Str("Acme GmbH | Factura 12"), Str("NIF 1 | Acme GmbH")}

\* A name of 47 characters: with " bv" it has 50, with " sl." it has 51
LongName == Str("Compagnie Generale des Eaux et des Forets du Su")

ScoreSpellings ==
  {Str("gmbh"), Str("GmbH"), Str("gmbh."), Str("limited"), Str("LIMITED"),
   Str("ltd"), Str("Ltd."), Str("inc"), Str("Inc."), Str("llc"), Str("bv"),
   Str("b.v."), Str("slu"), Str("S.L.U."), Str("s.l.u"), Str("sl.u"),
   Str("sl"), Str("SL"), Str("s.l"), Str("S.L."), Str("sl."),
   Str("sa"), Str("SA"), Str("s.a"), Str("S.A."), Str("sa."),
   Str("srl"), Str("gmbhs"), Str("xltd"), Str("U.S.A."), Str("s.l.x"),
   Str("inc_1"), Str("co")}

ScoreTails ==
  {<<>>, Str(" Systems"), Str(" online"), Str(" Softwares"), Str(" e-services")}

\* Lines with and without a legal form, a business term, a counted length
ScoreLines ==
  {b \o Str(" ") \o sp \o t :
     b \in {Str("Acme"), LongName}, sp \in ScoreSpellings, t \in ScoreTails}
    \cup {Str("Inc"), Str("BV."), Str("IBM"), Str("Acme"), Str("Online"),
          Str("Technologies Ltd"), Str("Software"), LongName \o Str("abc"),
          LongName \o Str("abcd")}

\* A first line of 3 or of more than 50 characters, then shorter lines
RankTexts ==
  {joinLines(<<a, b, c>>, <<"\n">>) :
     a \in {Str("IBM"), Str("Inc"), LongName \o Str("abcd"),
            LongName \o Str(" Ltd"), LongName \o Str(" Online")},
     b \in {Str("12345"), Str("xyz"), Str("Total: 540.00")},
     c \in {Str("abcd"), Str("No"), LongName \o Str("wxyz")}}

VendorTexts ==
  {joinLines(ls, <<"\n">>) : ls \in SeqsUpTo(VendorLines, MaxVendorLines)}
    \cup MixedTexts \cup LongTexts \cup RuleLines \cup ScoreLines
    \cup RankTexts

InitVendor ==
  /\ pc = "scanVendor"
  /\ text \in VendorTexts
  /\ vendor = <<>>
  /\ date = NoDate
  /\ candidateList = <<>>
  /\ IdleSlug /\ IdleProcess

ScanVendor ==
  /\ pc = "scanVendor"
  /\ candidateList' = vendorCandidates(text)
  /\ vendor' = findVendor(text)
  /\ pc' = "vendorDone"
  /\ UNCHANGED <<slugVars, processVars, text, date>>

NextVendor == ScanVendor

SpecVendor == InitVendor /\ [][NextVendor]_vars

\* "Page N of M" alone, digits alone, or with "@" or "http://" in it
IsNoise(l) ==
  isPageLine(l) \/ isDigitsOnly(l) \/ contains(l, Str("@")) \/ contains(l, Str("http://"))

\* C8 as stated: a line that is only "Page N of M", only digits, or has "@"
\* or "http://" in it is never the line findVendor returns, and a text of
\* only such lines gives the empty string.
C8_NoiseLines ==
  pc = "vendorDone" =>
    LET lines == rawLines(text)
    IN /\ \A k \in DOMAIN lines : IsNoise(lines[k]) => vendor # lines[k]
       /\ (\A k \in DOMAIN lines : IsNoise(lines[k])) => vendor = <<>>

\* C8 amended: the rule is about the primary chunk of the line (the text
\* before its first bullet or pipe, without # * and middle dots, trimmed):
\* a chunk that is only "Page N of M", only digits, or has "@" or "http://"
\* in it is never returned, and a text whose lines all have such a chunk
\* gives the empty string.
C8_NoiseChunks ==
  pc = "vendorDone" =>
    LET lines == rawLines(text)
    IN /\ \A k \in DOMAIN lines :
            IsNoise(normalizeCandidate(lines[k])) => vendor # normalizeCandidate(lines[k])
       /\ (\A k \in DOMAIN lines : IsNoise(normalizeCandidate(lines[k])))
            => vendor = <<>>

C8_Witness ==
  /\ pc = "vendorDone"
  /\ text = Str("Page 2 of 5\n12345\nbilling@acme.com")
  /\ vendor = <<>>

\* C9: findVendor returns the cleaned value of a surviving line whose score
\* is maximal among the surviving lines, the earliest line of that score;
\* it returns the empty string exactly when no line survives.
C9_TopEarliest ==
  pc = "vendorDone" =>
    LET lines == rawLines(text)
        cleaned == [k \in DOMAIN lines |-> normalizeCandidate(lines[k])]
        alive == {k \in DOMAIN lines : survives(cleaned[k])}
    IN /\ (vendor = <<>>) <=> (alive = {})
       /\ alive # {} =>
            \E k \in alive :
              /\ vendor = cleaned[k]
              /\ \A j \in alive : score(cleaned[j]) <= score(cleaned[k])
              /\ \A j \in alive : j < k => score(cleaned[j]) < score(cleaned[k])

C9_Witness ==
  /\ pc = "vendorDone"
  /\ text = Str("Total: 540.00\nGlobex Ltd\nAcme GmbH")
  /\ vendor = Str("Globex Ltd")

----------------------------------------------------------------------------
(* Spec: the script, invoked once per document, up to MaxRuns times.       *)

MaxRuns == 2

InvoicePdf == Str("/tmp/invoice.pdf")
AcmePdf == Str("docs/Acme SL.pdf")
DashPdf == Str("/d/--.pdf")
Paths == {InvoicePdf, AcmePdf, DashPdf}

Scenario1 ==
  Str("Acme Technologies GmbH\nInvoice #1029\nDate: 2024-03-07\nTotal: 540.00")
Scenario2 == Str("www.acme.com\n07/03/2024")
Scenario2Reversed == Str("07/03/2024\r\nwww.acme.com\r\n")

MainTexts ==
  {Scenario1, Scenario2, Scenario2Reversed, <<>>,
   Str("Globex Ltd\nTotal: 540.00\n15/03/2024 2024-01-10"),
   Str("Page 2 of 5\n12345"), Str("IBM\n2024-1-7"),
   Str("Acme Inc | billing@acme.com"),
   Str("Ref x2024-01-10\n2024-13-01 32/01/2024 1/2/1999")}

ArgLists ==
  {<<>>, <<PdfFlag>>, <<Str("-v"), PdfFlag, InvoicePdf>>,
   <<InvoicePdf>>, <<PdfFlag, <<>>>>, <<PdfFlag, PdfFlag>>,
   <<PdfFlag, Str("missing.pdf")>>}
    \cup {<<PdfFlag, p>> : p \in Paths}

FileSystems ==
  {{resolve(p) : p \in Paths}, {resolve(p) : p \in Paths \ {DashPdf}}}

\* status -1 stands for the null of a process that was not started or was
\* killed by a signal
ToolResults ==
  {[status |-> 0, stdout |-> t, stderr |-> <<>>] : t \in MainTexts}
    \cup {[status |-> 1, stdout |-> <<>>, stderr |-> Str("Syntax Error: bad xref")],
          [status |-> 1, stdout |-> <<>>, stderr |-> <<>>],
          [status |-> -1, stdout |-> <<>>, stderr |-> <<>>],
          [status |-> -1, stdout |-> Scenario1, stderr |-> Str("Killed")]}

\* The state of a process that is about to run the script
Started ==
  /\ pc' = "args"
  /\ args' \in ArgLists /\ fs' \in FileSystems /\ tool' \in ToolResults
  /\ pdfPath' = <<>> /\ text' = <<>> /\ vendor' = <<>> /\ date' = NoDate
  /\ vendorSlug' = <<>> /\ stdout' = NoOutput /\ stderr' = <<>>
  /\ exitCode' = NotExited /\ spawned' = FALSE /\ candidateList' = <<>>

Init ==
  /\ pc = "args"
  /\ args \in ArgLists /\ fs \in FileSystems /\ tool \in ToolResults
  /\ pdfPath = <<>> /\ text = <<>> /\ vendor = <<>> /\ date = NoDate
  /\ vendorSlug = <<>> /\ stdout = NoOutput /\ stderr = <<>>
  /\ exitCode = NotExited /\ spawned = FALSE /\ candidateList = <<>>
  /\ runs = 1 /\ prevText = <<>> /\ prevOut = NoOutput
  /\ IdleSlug /\ IdleShell

\* The script is run again, on another document
Invoke ==
  /\ pc = "exit"
  /\ runs < MaxRuns
  /\ runs' = runs + 1
  /\ IF stdout.written
     THEN prevText' = text /\ prevOut' = stdout
     ELSE UNCHANGED <<prevText, prevOut, shpc, sh>>
  /\ Started
  /\ UNCHANGED <<slugVars, shellVars>>

Next ==
  \/ ParseArgs \/ CheckExists \/ ExtractText \/ FindVendor \/ FindDate
  \/ SlugVendor \/ WriteResult \/ Invoke

Spec == Init /\ [][Next]_vars

Emitted == pc = "exit" /\ stdout.written

Result(v, vs, y, m) ==
  [written |-> TRUE, vendor |-> v, vendorSlug |-> vs, year |-> y, month |-> m]

IsScenario2 == text \in {Scenario2, Scenario2Reversed}

FileNameSlug ==
  [q \in {resolve(p) : p \in Paths} |->
     IF q = InvoicePdf THEN Str("invoice")
     ELSE IF q = resolve(AcmePdf) THEN Str("acme")
     ELSE Fallback]

SameTextTwice == Emitted /\ prevOut.written /\ prevText = text

C10_Scenario1 ==
  (Emitted /\ text = Scenario1) =>
    stdout = Result(Str("Acme Technologies GmbH"), Str("acme-technologies"),
                    Str("2024"), Str("03"))

C10_Witness ==
  /\ Emitted /\ text = Scenario1
  /\ stdout.vendor = Str("Acme Technologies GmbH")
  /\ stdout.month = Str("03")

----------------------------------------------------------------------------
(* Date absence, output and errors of the script *)

\* A day-first date D[D][-/]M[M][-/]YYYY stands at position i of t, as a
\* whole word, with a day of dlen and a month of mlen characters
DayFirstDateAt(t, i, dlen, mlen) ==
  LET j == i + dlen + 1 + mlen + 1 + 4
  IN /\ j - 1 <= Len(t)
     /\ SubSeq(t, i, i + dlen - 1) \in DayStrings
     /\ t[i + dlen] \in {"-", "/"}
     /\ SubSeq(t, i + dlen + 1, i + dlen + mlen) \in MonthStrings
     /\ t[i + dlen + mlen + 1] \in {"-", "/"}
     /\ IsYear(SubSeq(t, j - 4, j - 1))
     /\ AtWordBoundary(t, i) /\ AtWordBoundary(t, j)

DayFirstStarts(t) ==
  {i \in 1..Len(t) :
     \E dlen \in {1, 2}, mlen \in {1, 2} : DayFirstDateAt(t, i, dlen, mlen)}

HasDate(t) == IsoStarts(t) # {} \/ DayFirstStarts(t) # {}

DateScanned == pc \in {"dateDone", "slug", "write"} \/ Emitted

\* C11: findDate returns null exactly when the text has no ISO-like and no
\* day-first date, and then the emitted year and month are both ""; the
\* emitted year and month are never one empty and the other set.
C11_NullIffNoDate ==
  /\ DateScanned => (date.null <=> ~HasDate(text))
  /\ Emitted =>
       /\ date.null => (stdout.year = <<>> /\ stdout.month = <<>>)
       /\ (stdout.year = <<>>) <=> (stdout.month = <<>>)

C11_Witness ==
  /\ Emitted
  /\ text = Str("Ref x2024-01-10\n2024-13-01 32/01/2024 1/2/1999")
  /\ date.null
  /\ stdout.year = <<>> /\ stdout.month = <<>>

\* The script is synchronous and none of its statements waits: until the
\* process has exited, control moves on to another statement
Statements ==
  {"args", "exists", "extract", "vendor", "date", "slug", "write", "exit"}

Advance == pc \in Statements \ {"exit"} /\ pc' \in Statements \ {pc}

SpecFair == Spec /\ WF_pc(Advance)

\* pdftotext was run and ended with status 0
Extracted == spawned /\ tool.status = 0

IsString(x) == x \in Seq(STRING)

ExitedWithResult ==
  /\ pc = "exit"
  /\ exitCode = 0
  /\ stderr = <<>>
  /\ stdout.written
  /\ DOMAIN stdout = {"written", "vendor", "vendorSlug", "year", "month"}
  /\ IsString(stdout.vendor) /\ IsString(stdout.vendorSlug)
  /\ IsString(stdout.year) /\ IsString(stdout.month)
  /\ stdout.vendor = vendor
  /\ date.null => (stdout.year = <<>> /\ stdout.month = <<>>)

\* C12: whenever text extraction succeeds the program terminates with
\* status 0 and has written one JSON object with exactly the keys vendor,
\* vendorSlug, year, month, each a string; an unresolved vendor or date is
\* the empty string and raises no error.
C12_AlwaysResult ==
  /\ []((Extracted /\ pc = "exit") => ExitedWithResult)
  /\ []((Extracted /\ pc # "exit") => (exitCode = NotExited /\ stderr = <<>>))
  /\ (Extracted ~> ExitedWithResult)

C12_Witness ==
  /\ Extracted /\ ExitedWithResult
  /\ text = Str("Page 2 of 5\n12345")
  /\ stdout.vendor = <<>> /\ stdout.year = <<>> /\ stdout.month = <<>>

\* pdftotext was run and did not end with status 0 (null is modelled as -1)
ToolFailed == spawned /\ tool.status # 0

ToolMessage == IF tool.stderr # <<>> THEN tool.stderr ELSE Str("pdftotext failed")

\* C13: when pdftotext ends with any status other than 0 the program writes
\* the tool's stderr, or "pdftotext failed" when that is empty, to the error
\* stream, exits non-zero, runs neither findVendor nor findDate on whatever
\* the tool wrote and writes no JSON result.
C13_ToolFailureTerminal ==
  ToolFailed =>
    /\ pc = "exit"
    /\ exitCode # 0 /\ exitCode # NotExited
    /\ stderr = <<ToolMessage>>
    /\ ~stdout.written
    /\ text = <<>> /\ vendor = <<>> /\ date = NoDate /\ vendorSlug = <<>>

C13_Witness ==
  /\ ToolFailed /\ pc = "exit"
  /\ tool.stdout = Scenario1
  /\ stderr = <<Str("Killed")>>
  /\ ~stdout.written

FlagMissing == \A i \in DOMAIN args : args[i] # PdfFlag

\* The argument after the first --pdf, <<>> when there is none or it is empty
FlagValue ==
  IF FlagMissing THEN <<>>
  ELSE LET i == CHOOSE k \in DOMAIN args :
                  args[k] = PdfFlag /\ \A j \in 1..(k - 1) : args[j] # PdfFlag
       IN IF i = Len(args) THEN <<>> ELSE args[i + 1]

PathMissing == FlagValue # <<>> /\ resolve(FlagValue) \notin fs

UsageError == pc \in Statements /\ (FlagValue = <<>> \/ PathMissing)

\* C14: when --pdf is missing, has no value or names a path that does not
\* exist, the program exits non-zero with a message on the error stream,
\* before pdftotext is ever started and with nothing on standard output; that
\* status differs from the 0 of a run that extracted text and resolved
\* nothing.
C14_UsageFailsFast ==
  /\ UsageError =>
       /\ ~spawned /\ ~stdout.written
       /\ pc \in {"args", "exists", "exit"}
       /\ (pc = "exists") => PathMissing
       /\ (pc = "exit") =>
            /\ exitCode \notin {0, NotExited}
            /\ Len(stderr) = 1 /\ stderr[1] # <<>>
  /\ (Extracted /\ pc = "exit" /\ vendor = <<>> /\ date.null) => exitCode = 0

C14_Witness ==
  /\ UsageError /\ PathMissing /\ pc = "exit"
  /\ args = <<PdfFlag, Str("missing.pdf")>>
  /\ stderr = <<Str("PDF not found: /work/missing.pdf")>>
  /\ exitCode = 1

-----------------------------------------------------------------------------
(* SpecPipeline: holded-from-gmail.sh, which downloads the first PDF       *)
(* attachment of a mail, runs the extractor on it, builds the file name    *)
(* and, with --yes, uploads the file and archives the thread.  The shell   *)
(* runs under set -e: a command that fails ends the script with the        *)
(* command's status.                                                       *)

ShUsage ==
  Str("holded-from-gmail.sh --account <gmail-account> --message-id <id> --type empresa|autonomo [--yes]")

\* The options that take a value, and the variable each one sets
ValueFlags ==
  {Str("--account"), Str("--message-id"), Str("--type"),
   Str("--email-empresa"), Str("--email-autonomo"), Str("--webhook")}

FlagVariable(f) ==
  CASE f = Str("--account") -> "ACCOUNT"
    [] f = Str("--message-id") -> "MESSAGE_ID"
    [] f = Str("--type") -> "TYPE"
    [] f = Str("--email-empresa") -> "EMAIL_EMPRESA"
    [] f = Str("--email-autonomo") -> "EMAIL_AUTONOMO"
    [] f = Str("--webhook") -> "WEBHOOK"

\* exit n after writing o to stdout and e to stderr
ShExit(v, n, o, e) ==
  [v EXCEPT !.status = n, !.out = @ \o o, !.err = @ \o e]

\* while [[ $# -gt 0 ]]; do case "$1" in ... esac; done; under set -u a
\* missing "$2" is an unbound variable, which ends the script with status 1
RECURSIVE shParse(_, _)
shParse(a, v) ==
  IF a = <<>> THEN v
  ELSE IF Head(a) \in ValueFlags
  THEN IF Len(a) < 2
       THEN ShExit(v, 1, <<>>, <<Str("$2: unbound variable")>>)
       ELSE shParse(SubSeq(a, 3, Len(a)),
                    [v EXCEPT ![FlagVariable(Head(a))] = a[2]])
  ELSE IF Head(a) = Str("--yes")
  THEN shParse(Tail(a), [v EXCEPT !.YES = Str("true")])
  ELSE IF Head(a) \in {Str("-h"), Str("--help")}
  THEN ShExit(v, 0, <<ShUsage>>, <<>>)
  ELSE ShExit(v, 2, <<ShUsage>>, <<Str("Unknown arg: ") \o Head(a)>>)

\* Where the script goes on: to the exit once a status is set
ShGoto(v, next) == IF v.status # NotExited THEN "exit" ELSE next

extractorVars ==
  <<pc, args, fs, tool, pdfPath, text, vendor, date, vendorSlug, stdout,
    stderr, exitCode, spawned, candidateList>>

otherVars == <<slugVars, runs, prevText, prevOut>>

ShParseArgs ==
  /\ shpc = "parse"
  /\ sh' = shParse(sh.argv, sh)
  /\ shpc' = ShGoto(sh', "validate")
  /\ UNCHANGED <<extractorVars, otherVars>>

\* Lines 69-96: the required options, the type, the destination address
\* (an address not given as an option is read from the configuration file)
shValidate(v) ==
  IF v.ACCOUNT = <<>> \/ v.MESSAGE_ID = <<>> \/ v.TYPE = <<>>
  THEN ShExit(v, 2, <<ShUsage>>, <<>>)
  ELSE IF v.TYPE \notin {Str("empresa"), Str("autonomo")}
  THEN ShExit(v, 2, <<>>, <<Str("Invalid --type (use empresa|autonomo)")>>)
  ELSE LET empresa == IF v.EMAIL_EMPRESA = <<>>
                      THEN v.config.company_email ELSE v.EMAIL_EMPRESA
           autonomo == IF v.EMAIL_AUTONOMO = <<>>
                       THEN v.config.freelancer_email ELSE v.EMAIL_AUTONOMO
           dest == IF v.TYPE = Str("empresa") THEN empresa ELSE autonomo
           w == [v EXCEPT !.EMAIL_EMPRESA = empresa,
                          !.EMAIL_AUTONOMO = autonomo, !.DEST_EMAIL = dest]
       IN IF dest = <<>>
          THEN ShExit(w, 2, <<>>, <<Str("Missing destination email")>>)
          ELSE w

ShValidate ==
  /\ shpc = "validate"
  /\ sh' = shValidate(sh)
  /\ shpc' = ShGoto(sh', "message")
  /\ UNCHANGED <<extractorVars, otherVars>>

\* What gog gmail get can answer: nothing (it failed), or a message with or
\* without a PDF attachment and with or without a thread id
Messages ==
  {[attachmentId |-> a, threadId |-> t] :
     a \in {<<>>, Str("att1")}, t \in {<<>>, Str("t1")}}

\* The status of a command that failed
FailureStatuses == {1, 3}

\* MSG_JSON=$(gog gmail get ...); ATTACHMENT_ID=$(... node -e ...);
\* if [[ -z "$ATTACHMENT_ID" ]]; then ... exit 1
ShGetMessage ==
  /\ shpc = "message"
  /\ \/ \E n \in FailureStatuses : sh' = ShExit(sh, n, <<>>, <<>>)
     \/ \E m \in Messages :
          LET v == [sh EXCEPT !.MSG_JSON = m, !.ATTACHMENT_ID = m.attachmentId]
          IN sh' = IF m.attachmentId = <<>>
                   THEN ShExit(v, 1, <<>>,
                          <<Str("No PDF attachment found in message ") \o sh.MESSAGE_ID>>)
                   ELSE v
  /\ shpc' = ShGoto(sh', "download")
  /\ UNCHANGED <<extractorVars, otherVars>>

TmpDir == Str("/tmp/tmp.Xa1")

OutPdf == TmpDir \o Str("/invoice.pdf")

\* OUT_PDF="$TMPDIR/invoice.pdf"; gog gmail attachment ... --out "$OUT_PDF"
ShDownload ==
  /\ shpc = "download"
  /\ \/ \E n \in FailureStatuses : sh' = ShExit(sh, n, <<>>, <<>>)
     \/ sh' = sh
  /\ shpc' = ShGoto(sh', "extract")
  /\ UNCHANGED <<extractorVars, otherVars>>

\* META=$(node "$SCRIPT_DIR/invoice-extract.js" --pdf "$OUT_PDF"): the
\* extractor starts, on the downloaded file
ShRunExtractor ==
  /\ shpc = "extract"
  /\ pc' = "args"
  /\ args' = <<PdfFlag, OutPdf>> /\ fs' = {OutPdf} /\ tool' \in ToolResults
  /\ pdfPath' = <<>> /\ text' = <<>> /\ vendor' = <<>> /\ date' = NoDate
  /\ vendorSlug' = <<>> /\ stdout' = NoOutput /\ stderr' = <<>>
  /\ exitCode' = NotExited /\ spawned' = FALSE /\ candidateList' = <<>>
  /\ shpc' = "meta"
  /\ UNCHANGED <<sh, otherVars>>

\* j.vendorSlug||'empresa', j.year||'', j.month||''
OrElse(x, y) == IF x # <<>> THEN x ELSE y

\* Lines 132-135, once the extractor has exited: a status other than 0 ends
\* the script; otherwise the fields are read from the JSON it wrote
ShReadMeta ==
  /\ shpc = "meta"
  /\ pc = "exit"
  /\ sh' = IF exitCode # 0
           THEN ShExit(sh, exitCode, <<>>, stderr)
           ELSE [sh EXCEPT !.META = stdout,
                           !.VENDOR_SLUG = OrElse(stdout.vendorSlug, Str("empresa")),
                           !.YEAR = OrElse(stdout.year, <<>>),
                           !.MONTH = OrElse(stdout.month, <<>>)]
  /\ shpc' = ShGoto(sh', "date")
  /\ UNCHANGED <<extractorVars, otherVars>>

\* The date taken on trust
ShCheckDate_NoCheck ==
  /\ shpc = "date"
  /\ shpc' = "suggest"
  /\ UNCHANGED <<sh, extractorVars, otherVars>>

\* if [[ -z "$YEAR" || -z "$MONTH" ]]; then ... exit 1
ShCheckDate ==
  /\ shpc = "date"
  /\ sh' = IF sh.YEAR = <<>> \/ sh.MONTH = <<>>
           THEN ShExit(sh, 1, <<>>,
                  <<Str("Could not infer invoice date (year/month)."), Str("META:")>>)
           ELSE sh
  /\ shpc' = ShGoto(sh', "suggest")
  /\ UNCHANGED <<extractorVars, otherVars>>

\* The suggestion printed and the upload made whether or not --yes was given
ShSuggest_NoDryRun ==
  /\ shpc = "suggest"
  /\ LET fileName == sh.VENDOR_SLUG \o Str("-") \o sh.YEAR \o Str("-")
                       \o sh.MONTH \o Str(".pdf")
     IN sh' = [sh EXCEPT !.FILENAME = fileName,
                         !.out = @ \o <<Str("Suggested:"),
                                        Str("- email: ") \o sh.DEST_EMAIL,
                                        Str("- nombre: ") \o fileName,
                                        Str("- pdf: ") \o OutPdf,
                                        <<>>, Str("META:")>>]
  /\ shpc' = ShGoto(sh', "upload")
  /\ UNCHANGED <<extractorVars, otherVars>>

\* Lines 143-157: the file name, the suggestion and, without --yes, the end
ShSuggest ==
  /\ shpc = "suggest"
  /\ LET fileName == sh.VENDOR_SLUG \o Str("-") \o sh.YEAR \o Str("-")
                       \o sh.MONTH \o Str(".pdf")
         v == [sh EXCEPT !.FILENAME = fileName,
                         !.out = @ \o <<Str("Suggested:"),
                                        Str("- email: ") \o sh.DEST_EMAIL,
                                        Str("- nombre: ") \o fileName,
                                        Str("- pdf: ") \o OutPdf,
                                        <<>>, Str("META:")>>]
     IN sh' = IF sh.YES # Str("true")
              THEN ShExit(v, 0, <<Str("(dry-run) Pass --yes to upload.")>>, <<>>)
              ELSE v
  /\ shpc' = ShGoto(sh', "upload")
  /\ UNCHANGED <<extractorVars, otherVars>>

\* "$SCRIPT_DIR/holded-upload.sh" --pdf "$OUT_PDF" --email "$DEST_EMAIL"
\* --nombre "$FILENAME": it is called, and it succeeds or fails
ShUpload ==
  /\ shpc = "upload"
  /\ LET v == [sh EXCEPT !.uploads = Append(@,
                  [pdf |-> OutPdf, email |-> sh.DEST_EMAIL, nombre |-> sh.FILENAME])]
     IN \/ \E n \in FailureStatuses : sh' = ShExit(v, n, <<>>, <<>>)
        \/ sh' = v
  /\ shpc' = ShGoto(sh', "archive")
  /\ UNCHANGED <<extractorVars, otherVars>>

\* Lines 162-166: the thread is taken out of the inbox (gog ... || true) and
\* the script ends
ShArchive ==
  /\ shpc = "archive"
  /\ LET id == sh.MSG_JSON.threadId
         v == [sh EXCEPT !.THREAD_ID = id]
     IN IF id = <<>>
        THEN sh' = ShExit(v, 0, <<>>, <<>>)
        ELSE \E done \in BOOLEAN :
               sh' = ShExit([v EXCEPT !.archived = IF done THEN Append(@, id) ELSE @],
                            0, <<Str("OK: archived thread ") \o id>>, <<>>)
  /\ shpc' = "exit"
  /\ UNCHANGED <<extractorVars, otherVars>>

ShArgLists ==
  LET account == <<Str("--account"), Str("me@x.io")>>
      message == <<Str("--message-id"), Str("m1")>>
      empresa == <<Str("--type"), Str("empresa")>>
      yes == <<Str("--yes")>>
  IN {account \o message \o empresa,
      account \o message \o empresa \o yes,
      yes \o account \o message \o <<Str("--type"), Str("autonomo")>>,
      account \o message \o empresa \o yes
        \o <<Str("--email-empresa"), Str("in@holded.io")>>,
      account \o message \o <<Str("--type"), Str("sl")>> \o yes,
      account \o empresa \o yes,
      account \o message \o empresa \o <<Str("--webhook")>>,
      account \o message \o empresa \o <<Str("--force")>>,
      <<Str("--help")>>,
      <<>>}

Configs ==
  {[company_email |-> Str("c@holded.io"), freelancer_email |-> <<>>],
   [company_email |-> <<>>, freelancer_email |-> <<>>]}

InitPipeline ==
  /\ shpc = "parse"
  /\ \E a \in ShArgLists, c \in Configs :
       sh = [NoShell EXCEPT !.argv = a, !.config = c]
  /\ pc = "none"
  /\ IdleSlug /\ IdleExtractor
  /\ text = <<>> /\ vendor = <<>> /\ date = NoDate /\ candidateList = <<>>

NextPipeline ==
  \/ ShParseArgs \/ ShValidate \/ ShGetMessage \/ ShDownload
  \/ ShRunExtractor \/ ShReadMeta \/ ShCheckDate \/ ShSuggest \/ ShUpload
  \/ ShArchive
  \/ ParseArgs \/ CheckExists \/ ExtractText \/ FindVendor \/ FindDate
  \/ SlugVendor \/ WriteResult

SpecPipeline == InitPipeline /\ [][NextPipeline]_vars

\* The extractor has answered and its year or its month is empty
DateUnresolved ==
  /\ shpc \in {"date", "suggest", "upload", "archive", "exit"}
  /\ sh.META # <<>>
  /\ (sh.META.year = <<>> \/ sh.META.month = <<>>)

IsSlugText(x) ==
  /\ x # <<>>
  /\ \A i \in DOMAIN x : x[i] \in SlugChars \cup {"-"}
  /\ x[1] # "-" /\ x[Len(x)] # "-"

\* f is <slug>-<YYYY>-<MM>.pdf
IsFileName(f) ==
  /\ Len(f) >= 13
  /\ LET n == Len(f) - 12
     IN /\ IsSlugText(SubSeq(f, 1, n))
        /\ f[n + 1] = "-" /\ f[n + 6] = "-"
        /\ \A i \in (n + 2)..(n + 5) \cup {n + 7, n + 8} : f[i] \in Digits
        /\ SubSeq(f, n + 9, n + 12) = Str(".pdf")

\* C15: in holded-from-gmail.sh, when the extraction result has an empty
\* year or an empty month the script reports the unresolved date on the
\* error stream and exits with status 1 before any file name is built; so
\* every file name passed to the upload step is <vendorSlug>-<YYYY>-<MM>.pdf
\* with its three parts non-empty.
C15_NoMalformedFileName ==
  /\ DateUnresolved =>
       /\ shpc \in {"date", "exit"}
       /\ sh.FILENAME = <<>> /\ sh.uploads = <<>> /\ sh.out = <<>>
       /\ (shpc = "exit") =>
            /\ sh.status = 1
            /\ sh.err # <<>>
            /\ sh.err[1] = Str("Could not infer invoice date (year/month).")
  /\ \A i \in DOMAIN sh.uploads : IsFileName(sh.uploads[i].nombre)
  /\ sh.FILENAME # <<>> => IsFileName(sh.FILENAME)

C15_Witness ==
  /\ DateUnresolved /\ shpc = "exit"
  /\ sh.META.vendor = Str("Acme Inc") /\ sh.VENDOR_SLUG = Str("acme")
  /\ sh.YES = Str("true")
  /\ sh.status = 1

-----------------------------------------------------------------------------
(* Diacritic folding of slugifyVendor *)

BaseLetters == <<"a", "e", "i", "o", "u", "n">>

\* The base letter of a character of the table, in either case; the lower
\* case of an ASCII letter; a digit; "-" for every other character
FoldOf(c) ==
  IF c \in SlugChars THEN c
  ELSE IF c \in AsciiUpper THEN LowerAZ[IndexOf(UpperAZ, c)]
  ELSE IF c \in Range(LowerAccented)
  THEN BaseLetters[(IndexOf(LowerAccented, c) + 3) \div 4]
  ELSE IF c \in Range(UpperAccented)
  THEN BaseLetters[(IndexOf(UpperAccented, c) + 3) \div 4]
  ELSE "-"

\* The words of f, a sequence over SlugChars and "-", joined by one hyphen
RECURSIVE JoinWords(_, _, _)
JoinWords(f, i, out) ==
  IF i > Len(f) THEN out
  ELSE IF f[i] = "-" THEN JoinWords(f, i + 1, out)
  ELSE JoinWords(f, i + 1,
         IF out # <<>> /\ i > 1 /\ f[i - 1] = "-"
         THEN out \o <<"-", f[i]>> ELSE Append(out, f[i]))

FoldedSlug(n) ==
  LET joined == JoinWords([i \in 1..Len(n) |-> FoldOf(n[i])], 1, <<>>)
  IN IF joined = <<>> THEN Fallback ELSE joined

AccentName == name.kind = "string" /\ name.val \in AccentInputs

\* C16: slugify maps exactly the accented vowels of the table (acute, grave,
\* diaeresis, circumflex, either case) and n-tilde to their base letter, so
\* slugify("Pen~a N~on~o") = "pena-nono"; any other non-ASCII letter is not
\* folded and acts as a separator.
C16_FoldOnlyTable ==
  (Slugged /\ AccentName) => slug = FoldedSlug(name.val)

-----------------------------------------------------------------------------
(* Lines of the text read by findVendor *)

\* The text with every newline, of whichever convention, written as a line
\* feed
toLineFeeds(s) ==
  LET marked == [i \in 1..Len(s) |->
                   IF s[i] # "\r" THEN s[i]
                   ELSE IF i < Len(s) /\ s[i + 1] = "\n" THEN "dropped"
                   ELSE "\n"]
  IN SelectSeq(marked, LAMBDA c : c # "dropped")

VendorScanned == pc = "vendorDone"

\* C17: findVendor gives the same result whichever newline convention
\* separates the lines: LF, CRLF, lone CR or any mixture split the text
\* into the same sequence of lines.
C17_AnyNewline ==
  VendorScanned =>
    /\ rawLines(text) = rawLines(toLineFeeds(text))
    /\ vendor = findVendor(toLineFeeds(text))

\* The lines that are not blank, trimmed, all of them
NonBlankLines(t) ==
  LET pieces == splitLines(t)
  IN SelectSeq([k \in DOMAIN pieces |-> trim(pieces[k])], LAMBDA l : l # <<>>)

\* The cleaned values of the first 80 of them
Considered(t) ==
  LET ls == NonBlankLines(t)
  IN [k \in 1..(IF Len(ls) < 80 THEN Len(ls) ELSE 80) |-> normalizeCandidate(ls[k])]

\* C18: only the first 80 non-empty (after trimming) lines are considered
\* by findVendor: the 81st or a later one is never returned, whatever its
\* score and even when no earlier line survives; blank lines do not count.
C18_First80Lines ==
  VendorScanned =>
    LET considered == Considered(text)
    IN /\ vendor # <<>> => vendor \in Range(considered)
       /\ \A i \in DOMAIN candidateList : candidateList[i].value \in Range(considered)
       /\ \A k \in DOMAIN considered :
            survives(considered[k]) =>
              vendor # <<>> /\ score(vendor) >= score(considered[k])

C18_Witness ==
  /\ VendorScanned
  /\ Len(NonBlankLines(text)) = 81
  /\ NonBlankLines(text)[81] = Str("Acme GmbH")
  /\ NonBlankLines(text)[1] = Str("12")
  /\ Len(splitLines(text)) > 81
  /\ vendor = <<>>

-----------------------------------------------------------------------------
(* The rejection rules of findVendor, written out *)

\* lit, in lower case, is at position i of s in any case
HasAt(s, i, lit) ==
  /\ i >= 1 /\ i + Len(lit) - 1 <= Len(s)
  /\ \A k \in 1..Len(lit) :
       s[i + k - 1] = lit[k]
         \/ (lit[k] \in AsciiLower /\ s[i + k - 1] = UpperAZ[IndexOf(LowerAZ, lit[k])])

HasSubstring(s, lit) == \E i \in 1..Len(s) : HasAt(s, i, lit)

\* w occurs in s with no letter, digit or underscore on either side
HasWord(s, w) ==
  \E i \in 1..Len(s) :
    /\ HasAt(s, i, w)
    /\ i = 1 \/ ~IsWordChar(s[i - 1])
    /\ i + Len(w) > Len(s) \/ ~IsWordChar(s[i + Len(w)])

AllIn(s, from, to, cs) == from <= to /\ \A k \in from..to : s[k] \in cs

\* "page", white space, digits, white space, "of", white space, digits
IsPageOf(s) ==
  /\ HasAt(s, 1, Str("page"))
  /\ \E a, b, c, d \in 5..Len(s) :
       /\ AllIn(s, 5, a, WhiteSpace)
       /\ AllIn(s, a + 1, b, Digits)
       /\ AllIn(s, b + 1, c, WhiteSpace)
       /\ HasAt(s, c + 1, Str("of"))
       /\ AllIn(s, c + 3, d, WhiteSpace)
       /\ AllIn(s, d + 1, Len(s), Digits)

\* a to z, the five vowels with an acute accent and n-tilde, in either case
AcuteLetters ==
  Range(LowerAZ) \cup Range(UpperAZ)
    \cup {"U+00E1", "U+00E9", "U+00ED", "U+00F3", "U+00FA", "U+00F1",
          "U+00C1", "U+00C9", "U+00CD", "U+00D3", "U+00DA", "U+00D1"}

\* The Latin letters of the inputs: those, and the vowels with a grave
\* accent, a diaeresis or a circumflex, c-cedilla and a-tilde
LatinLetters ==
  AcuteLetters \cup Range(LowerAccented) \cup Range(UpperAccented)
    \cup Range(LowerOther) \cup Range(UpperOther)

PassesEveryRule(c, letters) ==
  /\ Len(c) >= 3
  /\ \A w \in stop : ~(Len(c) = Len(w) /\ HasAt(c, 1, w))
  /\ ~IsPageOf(c)
  /\ \E i \in DOMAIN c : c[i] \notin Digits
  /\ \A lit \in {Str("www."), Str("http://"), Str("https://"), Str("@")} :
       ~HasSubstring(c, lit)
  /\ \A w \in {Str("cif"), Str("nif"), Str("vat"), Str("tax")} : ~HasWord(c, w)
  /\ \A w \in {Str("factura"), Str("invoice"), Str("recibo"), Str("receipt")} :
       ~HasWord(c, w)
  /\ \E i \in DOMAIN c : c[i] \in letters

CandidateValues == [i \in DOMAIN candidateList |-> candidateList[i].value]

StopPrefixLines == {Str("Date: 2024-03-07"), Str("Total: 540.00")}

\* C19 as stated: a line becomes a vendor candidate if and only if its
\* cleaned primary chunk passes every rejection rule (length at least 3, not
\* a stop-list word, not "page N of M", not only digits, no "www.",
\* "http://", "https://" or "@", no whole-word cif/nif/vat/tax, no whole-word
\* factura/invoice/recibo/receipt, at least one Latin letter); a line that
\* merely starts with a stop-list word is still a candidate.
C19_AnyLatinLetter ==
  VendorScanned =>
    /\ CandidateValues =
         SelectSeq(Considered(text), LAMBDA c : PassesEveryRule(c, LatinLetters))
    /\ \A l \in StopPrefixLines :
         l \in Range(Considered(text)) => l \in Range(CandidateValues)

\* C19 amended: the same, the last rule being at least one letter among a to
\* z, the vowels with an acute accent and n-tilde, in either case.
C19_CandidateIffPasses ==
  VendorScanned =>
    /\ CandidateValues =
         SelectSeq(Considered(text), LAMBDA c : PassesEveryRule(c, AcuteLetters))
    /\ \A l \in StopPrefixLines :
         l \in Range(Considered(text)) => l \in Range(CandidateValues)

C19_Witness ==
  /\ VendorScanned
  /\ text = Str("Date: 2024-03-07")
  /\ candidateList = <<[value |-> Str("Date: 2024-03-07"), score |-> 1]>>
  /\ vendor = text

-----------------------------------------------------------------------------
(* The score of a candidate, written out *)

\* There is a word character on one side only of the place before s[i]
WordEdge(s, i) ==
  (i > 1 /\ IsWordChar(s[i - 1])) # (i <= Len(s) /\ IsWordChar(s[i]))

\* w occurs in s between two word edges
HasBetweenEdges(s, w) ==
  \E i \in 1..Len(s) :
    HasAt(s, i, w) /\ WordEdge(s, i) /\ WordEdge(s, i + Len(w))

\* The suffixes as the claim lists them
ListedSuffixes ==
  {Str("gmbh"), Str("limited"), Str("ltd"), Str("inc"), Str("llc"),
   Str("s.l.u."), Str("s.l."), Str("s.a."), Str("bv")}

\* The spellings that count: ltd and inc with or without a period after
\* them, s.a with or without one, sl and slu with or without a period after
\* each letter
CountedSuffixes ==
  {Str("gmbh"), Str("limited"), Str("ltd"), Str("ltd."), Str("inc"),
   Str("inc."), Str("llc"), Str("bv"), Str("s.a"), Str("s.a.")}
    \cup {<<"s">> \o p1 \o <<"l">> \o p2 \o u :
            p1 \in {<<>>, <<".">>}, p2 \in {<<>>, <<".">>},
            u \in {<<>>, <<"u">>, <<"u", ".">>}}

BusinessWords ==
  {Str("online"), Str("technologies"), Str("systems"), Str("software"),
   Str("services")}

Bit(b) == IF b THEN 1 ELSE 0

ScoreIs(c, hasSuffix) ==
  LET hasTerm == \E w \in BusinessWords : HasWord(c.value, w)
      counted == Len(c.value) >= 4 /\ Len(c.value) <= 50
  IN /\ c.score = 3 * Bit(hasSuffix) + Bit(hasTerm) + Bit(counted)
     /\ c.score \in 0..5
     /\ c.score = 5 <=> (hasSuffix /\ hasTerm /\ counted)

\* C20 as stated: the score of a candidate is 3 if its cleaned value
\* contains one of gmbh, limited, ltd, inc, llc, s.l.u., s.l., s.a., bv as a
\* whole word in any case, plus 1 if it contains a whole-word business term,
\* plus 1 if its length is between 4 and 50; it is an integer in 0..5 and is
\* 5 only when all three hold.
C20_ListedSuffixes ==
  VendorScanned =>
    \A i \in DOMAIN candidateList :
      ScoreIs(candidateList[i],
              \E w \in ListedSuffixes : HasWord(candidateList[i].value, w))

\* C20 amended: the same, the suffix being any of the counted spellings
\* between two word edges.
C20_CountedSuffixes ==
  VendorScanned =>
    \A i \in DOMAIN candidateList :
      ScoreIs(candidateList[i],
              \E w \in CountedSuffixes : HasBetweenEdges(candidateList[i].value, w))

C20_Witness ==
  /\ VendorScanned
  /\ text = Str("Acme SL Systems")
  /\ candidateList = <<[value |-> text, score |-> 5]>>

-----------------------------------------------------------------------------
(* The primary chunk of a line *)

\* s without the white space at its two ends
Trimmed(s) ==
  LET inner == {i \in DOMAIN s : s[i] \notin WhiteSpace}
  IN IF inner = {} THEN <<>>
     ELSE SubSeq(s, CHOOSE i \in inner : \A j \in inner : i <= j,
                    CHOOSE i \in inner : \A j \in inner : i >= j)

\* The text before the first bullet or vertical bar, whichever comes first,
\* without "#", "*" and the middle dot, trimmed
PrimaryChunk(l) ==
  LET seps == {i \in DOMAIN l : l[i] \in {Bullet, "|"}}
      end == IF seps = {} THEN Len(l) ELSE (CHOOSE i \in seps : \A j \in seps : i <= j) - 1
  IN Trimmed(SelectSeq(SubSeq(l, 1, end), LAMBDA c : c \notin {"#", "*", MiddleDot}))

\* The primary chunks of the first 80 non-blank lines
Chunks(t) ==
  LET ls == NonBlankLines(t)
  IN [k \in 1..(IF Len(ls) < 80 THEN Len(ls) ELSE 80) |-> PrimaryChunk(ls[k])]

BulletLine == Str("Acme Inc ") \o <<Bullet>> \o Str(" Tax ID 123")

\* C21: the value findVendor scores and returns for a line is its primary
\* chunk, the text before the first bullet or vertical bar, whichever comes
\* first, with every "#", "*" and middle dot removed and the surrounding
\* white space trimmed; "Acme Inc (bullet) Tax ID 123" yields the candidate
\* "Acme Inc".
C21_PrimaryChunk ==
  VendorScanned =>
    LET kept == SelectSeq(Chunks(text), survives)
    IN /\ CandidateValues = kept
       /\ \A i \in DOMAIN candidateList :
            candidateList[i].score = score(candidateList[i].value)
       /\ vendor # <<>> => vendor \in Range(Chunks(text))
       /\ text = BulletLine => vendor = Str("Acme Inc")

C21_Witness ==
  /\ VendorScanned
  /\ text = BulletLine
  /\ candidateList = <<[value |-> Str("Acme Inc"), score |-> 4]>>
  /\ vendor = Str("Acme Inc")

-----------------------------------------------------------------------------
(* What comes after the separator of a line *)

\* The text of l from its first bullet or vertical bar on, <<>> without one
AfterChunk(l) ==
  LET seps == {i \in DOMAIN l : l[i] \in {Bullet, "|"}}
  IN IF seps = {} THEN <<>>
     ELSE SubSeq(l, CHOOSE i \in seps : \A j \in seps : i <= j, Len(l))

\* An "@", a URL marker, a tax-ID word or a document-type word
HasMetadata(s) ==
  \/ \E lit \in {Str("www."), Str("http://"), Str("https://"), Str("@")} :
       HasSubstring(s, lit)
  \/ \E w \in {Str("cif"), Str("nif"), Str("vat"), Str("tax"),
               Str("factura"), Str("invoice"), Str("recibo"), Str("receipt")} :
       HasWord(s, w)

First80Lines(t) ==
  LET ls == NonBlankLines(t)
  IN SubSeq(ls, 1, IF Len(ls) < 80 THEN Len(ls) ELSE 80)

MetadataLine == Str("Acme Inc | a@b www.x.io NIF 1 Invoice 2")

\* C22: the rejection rules are evaluated on the primary chunk only: a line
\* whose text after the first bullet or vertical bar contains "@", a URL
\* marker, a tax-ID word or a document-type word is still a candidate when
\* the text before the separator passes every rule.
C22_ChunkOnly ==
  VendorScanned =>
    LET ls == First80Lines(text)
        passing == {k \in DOMAIN ls : PassesEveryRule(PrimaryChunk(ls[k]), AcuteLetters)}
    IN /\ \A k \in passing :
            HasMetadata(AfterChunk(ls[k])) =>
              PrimaryChunk(ls[k]) \in Range(CandidateValues)
       /\ Len(candidateList) = Cardinality(passing)

C22_Witness ==
  /\ VendorScanned
  /\ text = MetadataLine
  /\ HasMetadata(AfterChunk(text))
  /\ candidateList = <<[value |-> Str("Acme Inc"), score |-> 4]>>

----------------------------------------------------------------------------
(* Selection within one date format.                                       *)

\* The year and month written in the day-first date that starts at i
DayFirstYearMonthAt(t, i) ==
  LET dlen == IF IsDateSepAt(t, i + 1) THEN 1 ELSE 2
      mlen == IF IsDateSepAt(t, i + dlen + 2) THEN 1 ELSE 2
  IN [year |-> SubSeq(t, i + dlen + mlen + 2, i + dlen + mlen + 5),
      month |-> SubSeq(t, i + dlen + 1, i + dlen + mlen)]

\* The year and month written in the ISO-like date that starts at i
IsoYearMonthAt(t, i) ==
  LET mlen == IF IsDateSepAt(t, i + 6) THEN 1 ELSE 2
  IN [year |-> SubSeq(t, i, i + 3), month |-> SubSeq(t, i + 5, i + 4 + mlen)]

TwoDigits(m) == IF Len(m) = 1 THEN <<"0">> \o m ELSE m

\* C23: within one date format the earliest match in document order is
\* selected: with no ISO-like date in the text, findDate returns the year
\* (third group) and month (second group) of the first day-first date;
\* with several ISO-like dates it returns those of the first of them.
C23_FirstInFormat ==
  pc = "dateDone" =>
    /\ (IsoStarts(text) = {} /\ DayFirstStarts(text) # {}) =>
         LET d == DayFirstYearMonthAt(text, Min(DayFirstStarts(text)))
         IN date = [null |-> FALSE, year |-> d.year, month |-> TwoDigits(d.month)]
    /\ Cardinality(IsoStarts(text)) >= 2 =>
         LET d == IsoYearMonthAt(text, Min(IsoStarts(text)))
         IN date = [null |-> FALSE, year |-> d.year, month |-> TwoDigits(d.month)]

C23_Witness ==
  /\ pc = "dateDone"
  /\ text = Str("7/3/2024 31-12-2099")
  /\ IsoStarts(text) = {}
  /\ Cardinality(DayFirstStarts(text)) = 2
  /\ date = [null |-> FALSE, year |-> Str("2024"), month |-> Str("03")]

C23_WitnessIso ==
  /\ pc = "dateDone"
  /\ text = Str("2024/12/31 2024-01-10")
  /\ Cardinality(IsoStarts(text)) = 2
  /\ date = [null |-> FALSE, year |-> Str("2024"), month |-> Str("12")]

----------------------------------------------------------------------------
(* Shape of a result of findDate.                                          *)

PaddedMonths == {<<"0", d>> : d \in Digit19} \cup {Str("10"), Str("11"), Str("12")}

\* C24: every non-null result of findDate has a year that is a four-digit
\* string in "2000".."2099" and a month that is a two-character zero-padded
\* string in "01".."12"; a month written without padding in the text
\* (2024-3-7, 7/3/2024) is returned as "03".
C24_YearMonthShape ==
  (pc = "dateDone" /\ ~date.null) =>
    /\ IsYear(date.year)
    /\ date.month \in PaddedMonths
    /\ text \in {Str("2024-3-7"), Str("7/3/2024")} => date.month = Str("03")

C24_Witness ==
  /\ pc = "dateDone"
  /\ text = Str("2024-3-7")
  /\ date = [null |-> FALSE, year |-> Str("2024"), month |-> Str("03")]

----------------------------------------------------------------------------
(* The fallback identifier.                                                *)

\* The name after trimming, lowercasing, diacritic folding and legal-suffix
\* removal, and its characters of [a-z0-9]
Remainder(v) ==
  stripLegalSuffixes(foldDiacritics(toLowerCase(trim(StringOrEmpty(v)))))
KeptChars(v) == SelectSeq(Remainder(v), LAMBDA c : c \in SlugChars)

\* The lowercased and folded forms of a character of the input
NormalChars(c) == Range(foldDiacritics(toLowerChars(c)))

C25_WitnessKept ==
  /\ Slugged
  /\ name = JsString(Str("Emp resa"))
  /\ slug = Str("emp-resa")

----------------------------------------------------------------------------
(* The source of the vendor slug.                                          *)

\* C26: when findVendor returns the empty string the emitted vendorSlug is
\* the slug of the file name of the document without its extension, and it
\* is "empresa" only when that file name slugs to nothing; when findVendor
\* returns a non-empty vendor the vendorSlug is slugifyVendor(vendor).
C26_SlugOfVendorOrFileName ==
  Emitted =>
    /\ stdout.vendor = findVendor(text)
    /\ stdout.vendor = <<>> =>
         /\ stdout.vendorSlug = FileNameSlug[pdfPath]
         /\ stdout.vendorSlug = Fallback => pdfPath = resolve(DashPdf)
    /\ stdout.vendor # <<>> =>
         stdout.vendorSlug = slugifyVendor(JsString(stdout.vendor))

C26_Witness ==
  /\ Emitted
  /\ stdout.vendor = <<>>
  /\ pdfPath = resolve(DashPdf)
  /\ stdout.vendorSlug = Fallback

C26_WitnessFileName ==
  /\ Emitted
  /\ stdout.vendor = <<>>
  /\ pdfPath = resolve(AcmePdf)
  /\ stdout.vendorSlug = Str("acme")

C26_WitnessVendor ==
  /\ Emitted
  /\ stdout.vendor = Str("Acme Technologies GmbH")
  /\ pdfPath = InvoicePdf
  /\ stdout.vendorSlug = Str("acme-technologies")

----------------------------------------------------------------------------
(* Shape of the vendor returned.                                           *)

DecoratedLine == Str(" # *Acme* ") \o <<MiddleDot>> \o Str(" GmbH \t| NIF 1")

\* C27: every non-empty value returned by findVendor has at least 3
\* characters, contains at least one Latin letter, has no leading or
\* trailing white space, and contains none of the characters bullet, "|",
\* "#", "*", middle dot, "@" nor the substrings "www.", "http://",
\* "https://".
C27_VendorShape ==
  (VendorScanned /\ vendor # <<>>) =>
    /\ Len(vendor) >= 3
    /\ \E i \in DOMAIN vendor : vendor[i] \in LatinLetters
    /\ vendor[1] \notin WhiteSpace
    /\ vendor[Len(vendor)] \notin WhiteSpace
    /\ \A i \in DOMAIN vendor :
         vendor[i] \notin {Bullet, "|", "#", "*", MiddleDot, "@"}
    /\ \A m \in {Str("www."), Str("http://"), Str("https://")} :
         ~HasSubstring(vendor, m)

C27_Witness ==
  /\ VendorScanned
  /\ text = DecoratedLine
  /\ vendor = Str("Acme  GmbH")

----------------------------------------------------------------------------
(* Values of 3 or of more than 50 characters.                              *)

\* The value has a counted legal form or a business term
HasSuffixOrTerm(v) ==
  \/ \E w \in CountedSuffixes : HasBetweenEdges(v, w)
  \/ \E w \in BusinessWords : HasWord(v, w)

\* The value has exactly 3 or more than 50 characters and neither
Unscored(v) == (Len(v) = 3 \/ Len(v) > 50) /\ ~HasSuffixOrTerm(v)

\* C28: a surviving line whose cleaned value has exactly 3 characters, or
\* more than 50, and no suffix or business term scores 0, so any surviving
\* line of 4 to 50 characters outranks it wherever that line stands: "IBM"
\* on the first line loses to a later "Total: 540.00".
C28_ShortAndLongLose ==
  VendorScanned =>
    /\ \A i \in DOMAIN candidateList :
         Unscored(candidateList[i].value) => candidateList[i].score = 0
    /\ (\E i \in DOMAIN candidateList :
          Len(candidateList[i].value) \in 4..50) => ~Unscored(vendor)
    /\ text = Str("IBM\nTotal: 540.00") => vendor = Str("Total: 540.00")

C28_Witness ==
  /\ VendorScanned
  /\ text = Str("IBM\nTotal: 540.00")
  /\ candidateList = <<[value |-> Str("IBM"), score |-> 0],
                       [value |-> Str("Total: 540.00"), score |-> 1]>>
  /\ vendor = Str("Total: 540.00")

C28_WitnessLong ==
  /\ VendorScanned
  /\ text = joinLines(<<LongName \o Str("abcd"), Str("12345"), Str("abcd")>>, <<"\n">>)
  /\ Len(candidateList) = 2
  /\ vendor = Str("abcd")

----------------------------------------------------------------------------
(* Upload and archive steps of holded-from-gmail.sh.                       *)

YesPassed == Str("--yes") \in Range(sh.argv)

DryRunNotice == Str("(dry-run) Pass --yes to upload.")

\* The script has printed the suggestion
Suggested == sh.FILENAME # <<>>

\* C29: in holded-from-gmail.sh the upload step runs only when --yes was
\* passed, a PDF attachment was found and the date was resolved; without
\* --yes the script prints the suggestion and exits 0 with no upload and no
\* change to the mail thread; the thread is archived only after the upload
\* step returned successfully, never before it and never when it failed.
C29_UploadThenArchive ==
  /\ sh.uploads # <<>> =>
       /\ YesPassed /\ sh.YES = Str("true")
       /\ sh.ATTACHMENT_ID # <<>>
       /\ sh.META # <<>> /\ sh.META.year # <<>> /\ sh.META.month # <<>>
       /\ Len(sh.uploads) = 1
       /\ sh.uploads[1].nombre = sh.FILENAME
  /\ ~YesPassed => (sh.uploads = <<>> /\ sh.archived = <<>>)
  /\ (Suggested /\ ~YesPassed) =>
       /\ shpc = "exit" /\ sh.status = 0
       /\ Str("Suggested:") \in Range(sh.out)
       /\ sh.out[Len(sh.out)] = DryRunNotice
  /\ sh.archived # <<>> =>
       /\ sh.uploads # <<>>
       /\ shpc = "exit" /\ sh.status = 0
       /\ sh.archived = <<sh.MSG_JSON.threadId>>
  /\ (shpc = "exit" /\ sh.status # 0) => sh.archived = <<>>
  /\ shpc \in {"parse", "validate", "message", "download", "meta", "date",
                "suggest", "upload"} => sh.archived = <<>>

C29_Witness ==
  /\ shpc = "exit" /\ sh.status = 0
  /\ YesPassed
  /\ Len(sh.uploads) = 1
  /\ sh.archived = <<Str("t1")>>

C29_WitnessDryRun ==
  /\ shpc = "exit" /\ sh.status = 0
  /\ ~YesPassed /\ Suggested
  /\ sh.out[Len(sh.out)] = DryRunNotice
  /\ sh.uploads = <<>> /\ sh.archived = <<>>

C29_WitnessUploadFailed ==
  /\ shpc = "exit" /\ sh.status = 3
  /\ Len(sh.uploads) = 1
  /\ sh.MSG_JSON.threadId = Str("t1")
  /\ sh.archived = <<>>

----------------------------------------------------------------------------
(* SpecCommand: the holded-invoice-slug.js command run on drawn arguments, *)
(* then slugifyVendor of the extractor applied to the same input.          *)

CommandUsage == Str("Usage: holded-invoice-slug \"Company Name\"")

\* process.argv.slice(2).join(" ")
RECURSIVE joinArgs(_)
joinArgs(a) ==
  IF a = <<>> THEN <<>>
  ELSE IF Len(a) = 1 THEN a[1]
  ELSE a[1] \o <<" ">> \o joinArgs(Tail(a))

\* The command without the replace of the legal suffixes
slugCommand_KeepSuffixes(argv) ==
  LET input == trim(joinArgs(argv))
      s0 == trim(toLowerCase(input))
      s1 == foldDiacritics(s0)
      s3 == collapseHyphens(stripEdgeHyphens(hyphenateRuns(s1, 1)), 1)
  IN IF input = <<>>
     THEN [out |-> <<>>, err |-> <<CommandUsage>>, status |-> 2]
     ELSE [out |-> IF s3 = <<>> THEN Fallback ELSE s3, err |-> <<>>, status |-> 0]

\* The script from its first statement to its exit: what it writes on its
\* two streams and its exit status
slugCommand(argv) ==
  LET input == trim(joinArgs(argv))
      s0 == trim(toLowerCase(input))
      s1 == foldDiacritics(s0)
      s2 == stripLegalSuffixes(s1)
      s3 == collapseHyphens(stripEdgeHyphens(hyphenateRuns(s2, 1)), 1)
  IN IF input = <<>>
     THEN [out |-> <<>>, err |-> <<CommandUsage>>, status |-> 2]
     ELSE [out |-> IF s3 = <<>> THEN Fallback ELSE s3, err |-> <<>>, status |-> 0]

MaxCommandArgs == 2

CommandWords ==
  {<<>>, Str(" "), <<"\t", "\n">>, Str("Acme"), Str(" Acme "), Str("S.L."),
   Str("GmbH"), Str("--"), Str("_x_"), Str("Acme Technologies, GmbH"),
   <<"P", "e", "U+00F1", "a">>, <<"U+00C9", "U+00DC">>, <<DottedCapitalI>>,
   <<KelvinSign, "2">>, <<"U+00A0">>}

CommandArgLists == SeqsUpTo(CommandWords, MaxCommandArgs)

InitCommand ==
  /\ pc = "command"
  /\ args \in CommandArgLists
  /\ name = JsString(joinArgs(args))
  /\ slug = <<>> /\ reslug = <<>>
  /\ stdout = <<>> /\ stderr = <<>> /\ exitCode = NotExited
  /\ fs = {} /\ tool = NoTool /\ pdfPath = <<>> /\ vendorSlug = <<>>
  /\ spawned = FALSE /\ runs = 0 /\ prevText = <<>> /\ prevOut = NoOutput
  /\ IdleShell
  /\ text = <<>> /\ vendor = <<>> /\ date = NoDate /\ candidateList = <<>>

RunSlugCommand ==
  /\ pc = "command"
  /\ LET r == slugCommand(args)
     IN /\ stdout' = stdout \o r.out
        /\ stderr' = stderr \o r.err
        /\ exitCode' = r.status
  /\ pc' = "slug"
  /\ UNCHANGED <<slugVars, args, fs, tool, pdfPath, vendorSlug, spawned, runs,
                 prevText, prevOut, shellVars, text, vendor, date, candidateList>>

NextCommand == RunSlugCommand \/ Slugify \/ Reslugify

SpecCommand == InitCommand /\ [][NextCommand]_vars

\* The input has no character other than white space
Blank(s) == \A i \in DOMAIN s : s[i] \in WhiteSpace

\* C30: the holded-invoice-slug.js command and slugifyVendor of the
\* extractor compute the same slug for every input that is not empty after
\* trimming; they differ only on blank input, where the command prints its
\* usage and exits with status 2, writing no slug, while slugifyVendor
\* returns "empresa".
C30_SameSlug ==
  (Slugged /\ exitCode # NotExited /\ name = JsString(joinArgs(args))) =>
    IF Blank(name.val)
    THEN /\ stdout = <<>>
         /\ stderr = <<CommandUsage>>
         /\ exitCode = 2
         /\ slug = Fallback
    ELSE /\ stdout = slug
         /\ stderr = <<>>
         /\ exitCode = 0

C30_Witness ==
  /\ Slugged /\ exitCode = 0
  /\ args = <<Str(" Acme "), Str("S.L.")>>
  /\ stdout = Str("acme") /\ slug = Str("acme")

C30_WitnessBlank ==
  /\ Slugged /\ exitCode = 2
  /\ args = <<Str(" "), <<"\t", "\n">>>>
  /\ stdout = <<>> /\ slug = Fallback

====
